---- MODULE Spec2Model ----
(***************************************************************************)
(* The asynchronous video-generation workflow of                          *)
(* src/video_generation/generator.py (class VeoVideoGenerator): optional  *)
(* image upload, submission of a long-running operation, polling with     *)
(* backoff, streaming download, and the boundary of generate_video_async  *)
(* that turns every exception into a failed VideoResponse; generate_batch *)
(* with its semaphore; and parse_video_uri of utils.py.                   *)
(*                                                                         *)
(* Time is fixed-point: one second is TicksPerSecond clock units, so that *)
(* the float constants 10.0, 30.0 and 1.2 of config.py and the products   *)
(* 10 * 1.2^k below the cap are represented exactly.                      *)
(***************************************************************************)
EXTENDS Integers, Sequences, FiniteSets, TLC

VARIABLES
    call,            \* the method the caller invoked
    pc,              \* position of the running coroutine
    request,         \* the arguments, then the validated VideoRequest
    now,             \* time.time(), in clock units
    job_start,       \* start_time of generate_video_async
    attempt,         \* tenacity's attempt_number of the method in progress
    image_uri,       \* result of _upload_image
    operation_name,  \* result of _initiate_generation
    video_uri,       \* result of _poll_operation
    poll,            \* locals of _poll_operation
    net,             \* history: the requests sent so far
    fs,              \* the file at the output path
    dl,              \* locals of _download_video
    poll_outcome,    \* how _poll_operation ended
    download_outcome,\* how _download_video ended
    raised,          \* the exception that left the last method
    propagated,      \* an exception left the method the caller invoked
    result,          \* the VideoResponse returned by generate_video_async
    batch,           \* locals of generate_batch and of its tasks
    util,            \* a call of a function of utils.py: arguments and result
    generator        \* the VeoVideoGenerator: its client and its max_retries

vars == <<call, pc, request, now, job_start, attempt, image_uri, operation_name,
          video_uri, poll, net, fs, dl, poll_outcome, download_outcome, raised,
          propagated, result, batch, util, generator>>

-----------------------------------------------------------------------------
(* Bounds of the model. *)

\* At most MaxSlow status requests of a run are slow; a slow request takes
\* SlowSeconds seconds, any other no time.
MaxSlow == 1
SlowSeconds == 5
\* max_wait_time of a direct _poll_operation call: multiples of WaitStep
\* seconds up to MaxWaitSteps * WaitStep.
MaxWaitSteps == 2
\* The download stream delivers at most MaxChunks chunks.
MaxChunks == 2

-----------------------------------------------------------------------------
(* config.py *)

TicksPerSecond == 100000

DEFAULT_MAX_WAIT_TIME == 600
INITIAL_POLL_INTERVAL == 10 * TicksPerSecond
MAX_POLL_INTERVAL == 30 * TicksPerSecond
\* POLL_BACKOFF_MULTIPLIER = 1.2 = POLL_BACKOFF_NUM / POLL_BACKOFF_DEN
POLL_BACKOFF_NUM == 12
POLL_BACKOFF_DEN == 10
MAX_RETRY_ATTEMPTS == 3
RETRY_MIN_WAIT == 1
RETRY_MAX_WAIT == 10

Min(a, b) == IF a <= b THEN a ELSE b
Max(a, b) == IF a >= b THEN a ELSE b

-----------------------------------------------------------------------------
(* Python values. None and Optional[...]. *)

None == [some |-> FALSE]
Some(x) == [some |-> TRUE, val |-> x]

(* JSON values as response.json() returns them: dict, list, str, bool, None. *)
JObj(f) == [t |-> "dict", f |-> f]
JArr(s) == [t |-> "list", s |-> s]
JStr(x) == [t |-> "str", x |-> x]
JBool(b) == [t |-> "bool", b |-> b]
JNum(n) == [t |-> "int", n |-> n]
JNull == [t |-> "NoneType"]
EmptyDict == [k \in {} |-> JNull]

\* bool(v): Python truthiness of a JSON value.
Truthy(v) ==
    CASE v.t = "dict" -> DOMAIN v.f # {}
      [] v.t = "list" -> Len(v.s) > 0
      [] v.t = "str" -> v.x # ""
      [] v.t = "bool" -> v.b
      [] v.t = "int" -> v.n # 0
      [] OTHER -> FALSE

\* The outcome of evaluating an expression: a value, or an exception type.
Ok(v) == [exc |-> "", val |-> v]
Exc(type) == [exc |-> type]

\* v[key] for a string key.
GetKey(r, key) ==
    IF r.exc # "" THEN r
    ELSE LET v == r.val IN
         CASE v.t = "dict" -> IF key \in DOMAIN v.f THEN Ok(v.f[key]) ELSE Exc("KeyError")
           [] OTHER -> Exc("TypeError")

\* v[0]: the first element of a list, the first character of a string; a dict
\* has no key 0 (JSON keys are strings).
GetFirst(r) ==
    IF r.exc # "" THEN r
    ELSE LET v == r.val IN
         CASE v.t = "list" -> IF Len(v.s) > 0 THEN Ok(v.s[1]) ELSE Exc("IndexError")
           [] v.t = "str" -> IF v.x # "" THEN Ok(JStr("c")) ELSE Exc("IndexError")
           [] v.t = "dict" -> Exc("KeyError")
           [] OTHER -> Exc("TypeError")

\* data["response"]["generateVideoResponse"]["generatedSamples"][0]["video"]["uri"]
ExtractVideoUri(data) ==
    GetKey(GetKey(GetFirst(GetKey(GetKey(GetKey(Ok(data), "response"),
        "generateVideoResponse"), "generatedSamples")), "video"), "uri")

-----------------------------------------------------------------------------
(* exceptions.py, and the exceptions of httpx and of the interpreter.  An   *)
(* exception is a record: its type, the message it was built with, and for  *)
(* a VideoGenerationError the details dict and the attributes of the class. *)

DictIf(cond, key, o) == IF cond THEN (key :> o.val) ELSE EmptyDict

\* `if x:` for an Optional[int] and an Optional[JSON value].
TruthyInt(o) == o.some /\ o.val # 0
TruthyJson(o) == o.some /\ Truthy(o.val)
TruthyStr(o) == o.some /\ o.val # ""

APIError(message, status_code, response_data) ==
    [type |-> "APIError", message |-> message,
     details |-> DictIf(TruthyInt(status_code), "status_code", status_code)
                 @@ DictIf(TruthyJson(response_data), "response", response_data),
     status_code |-> status_code, response_data |-> response_data]

TimeoutError(message, elapsed_time) ==
    [type |-> "TimeoutError", message |-> message,
     details |-> DictIf(TruthyInt(elapsed_time), "elapsed_time", elapsed_time),
     elapsed_time |-> elapsed_time]

DownloadError(message, uri) ==
    [type |-> "DownloadError", message |-> message,
     details |-> DictIf(TruthyStr(uri), "video_uri", uri),
     video_uri |-> uri, partial_bytes |-> None]

ValidationError(message, field) ==
    [type |-> "ValidationError", message |-> message,
     details |-> DictIf(TruthyStr(field), "field", field),
     field |-> field]

\* An exception of another library or of the interpreter: no details attribute.
Builtin(type, message) == [type |-> type, message |-> message]

VideoGenerationErrors == {"APIError", "TimeoutError", "DownloadError", "ValidationError"}

\* hasattr(e, "details")
HasDetails(e) == e.type \in VideoGenerationErrors

\* str(e): VideoGenerationError.__str__ appends the details when there are
\* any; any other exception prints the message it was built with.
Str(e) ==
    IF HasDetails(e) /\ DOMAIN e.details # {}
    THEN e.message \o " | Details: " \o "{...}"
    ELSE e.message

\* httpx.HTTPError and its subclasses: HTTPStatusError (raise_for_status) and
\* the transport errors (httpx.RequestError).
TransportErrors == {"ConnectError", "ReadTimeout"}
IsHTTPStatusError(e) == e.type = "HTTPStatusError"
IsHTTPError(e) == e.type \in TransportErrors \/ IsHTTPStatusError(e)

\* The transport errors the client can raise; a timeout of httpx has an empty
\* message.
TransportExceptions ==
    { Builtin("ConnectError", "All connection attempts failed"),
      Builtin("ReadTimeout", "") }

HTTPStatusError(status_code, body) ==
    [type |-> "HTTPStatusError",
     message |-> "Server error '" \o ToString(status_code) \o "' for url",
     status_code |-> status_code, body |-> body]

-----------------------------------------------------------------------------
(* The answers of the server to a status GET (EXTERNAL: the proxy).         *)

Sample(uri) == JObj([video |-> JObj([uri |-> JStr(uri)])])
ResponseWith(samples) ==
    JObj([generateVideoResponse |-> JObj([generatedSamples |-> samples])])
ErrorPayload == JObj([code |-> JNum(13), message |-> JStr("internal")])

VideoUris == {"https://generativelanguage.googleapis.com/v1beta/files/abc123", "files/xyz"}

\* Bodies that are not done.
PendingBodies ==
    { JObj(EmptyDict),
      JObj([done |-> JBool(FALSE)]),
      JObj([done |-> JBool(FALSE), response |-> ResponseWith(JArr(<<Sample("files/early")>>))]) }

\* Done bodies with the URI at the nested path.
CompleteBodies ==
    { JObj([done |-> JBool(TRUE), response |-> ResponseWith(JArr(<<Sample(u)>>))]) : u \in VideoUris }

\* Done bodies whose nested path is absent or malformed.
MalformedBodies ==
    { JObj([done |-> JBool(TRUE)]),
      JObj([done |-> JBool(TRUE), response |-> JObj(EmptyDict)]),
      JObj([done |-> JBool(TRUE), response |-> JObj([generateVideoResponse |-> JObj(EmptyDict)])]),
      JObj([done |-> JBool(TRUE), response |-> ResponseWith(JArr(<<>>))]),
      JObj([done |-> JBool(TRUE), response |-> ResponseWith(JObj(EmptyDict))]),
      JObj([done |-> JBool(TRUE), response |-> ResponseWith(JArr(<<JObj(EmptyDict)>>))]),
      JObj([done |-> JBool(TRUE), response |-> ResponseWith(JArr(<<JObj([video |-> JObj(EmptyDict)])>>))]),
      JObj([done |-> JBool(TRUE), response |-> ResponseWith(JArr(<<JStr("files/abc")>>))]),
      JObj([done |-> JBool(TRUE), response |-> ResponseWith(JArr(<<JObj([video |-> JStr("files/abc")])>>))]),
      JObj([done |-> JBool(TRUE), response |-> JNull]) }

\* Bodies with an error object, done or not, with or without a valid URI.
ErrorBodies ==
    { JObj([error |-> ErrorPayload]),
      JObj([done |-> JBool(FALSE), error |-> ErrorPayload]),
      JObj([done |-> JBool(TRUE), error |-> ErrorPayload]),
      JObj([done |-> JBool(TRUE), error |-> ErrorPayload,
            response |-> ResponseWith(JArr(<<Sample("files/xyz")>>))]),
      JObj([done |-> JBool(TRUE), error |-> JObj(EmptyDict)]) }

StatusBodies == PendingBodies \cup CompleteBodies \cup MalformedBodies \cup ErrorBodies

\* What client.get followed by raise_for_status and json() yields: a transport
\* error, an HTTP error status, or the decoded body of a 2xx response.
StatusResponses ==
    { [kind |-> "transport", exc |-> e] : e \in TransportExceptions }
    \cup { [kind |-> "status", exc |-> HTTPStatusError(c, JObj(EmptyDict))] : c \in {404, 503} }
    \cup { [kind |-> "json", data |-> d] : d \in StatusBodies }

\* "error" in data
HasError(data) == "error" \in DOMAIN data.f
\* data.get(key, default)
DictGet(data, key, default) == IF key \in DOMAIN data.f THEN data.f[key] ELSE default

-----------------------------------------------------------------------------
(* models.py: VideoResponse *)

VideoResponse(success, video_path, op, uri, file_size_mb, generation_time, error, error_details) ==
    [success |-> success, video_path |-> video_path, operation_name |-> op,
     video_uri |-> uri, file_size_mb |-> file_size_mb,
     generation_time |-> generation_time, error |-> error,
     error_details |-> error_details]

-----------------------------------------------------------------------------
(* generate_video_async: the except clause (generator.py 503-514).          *)

\* Mutant: the clause catches the exceptions of this package only.
IsVideoGenerationError(e) == HasDetails(e)

\* `except Exception` catches every exception but those deriving from
\* BaseException alone.
IsException(e) == e.type \notin {"CancelledError", "KeyboardInterrupt", "SystemExit"}

\* Mutant: the failed response carries the handle and the URI obtained so far.
generate_video_async_except_partial(e, generation_time) ==
    [caught |-> IsException(e),
     response |-> VideoResponse(FALSE, None, operation_name, video_uri, None,
                                Some(generation_time), Some(Str(e)),
                                Some(IF HasDetails(e) THEN e.details ELSE EmptyDict))]

\* The handler: whether it catches e, and the VideoResponse it returns.
generate_video_async_except(e, generation_time) ==
    [caught |-> IsException(e),
     response |-> VideoResponse(FALSE, None, None, None, None, Some(generation_time),
                                Some(Str(e)),
                                Some(IF HasDetails(e) THEN e.details ELSE EmptyDict))]

\* VeoVideoGenerator(max_retries=...) (generator.py 91-117): max_retries is
\* stored, and there is no client yet.
VeoVideoGenerator(max_retries) == [client |-> "none", max_retries |-> max_retries]

\* __aenter__ (lines 119-125) makes a new client; __aexit__ (lines 127-130)
\* closes the client there is and keeps it in _client.
Entered(g) == [g EXCEPT !.client = "open"]
Exited(g) == [g EXCEPT !.client = IF @ = "none" THEN "none" ELSE "closed"]

\* The property client (lines 132-140) raises only when _client is None.
NotReady ==
    Builtin("RuntimeError",
            "VeoVideoGenerator must be used as async context manager. "
            \o "Use: async with VeoVideoGenerator() as generator:")

\* httpx.AsyncClient refuses to send once it is closed (EXTERNAL: httpx).
ClientClosed ==
    Builtin("RuntimeError", "Cannot send a request, as the client has been closed.")

\* self.client.post / get / stream with generator g: the answers of the server
\* when the client is open; otherwise the exception raised before anything
\* is sent.
ClientResponses(g, responses) ==
    CASE g.client = "open" -> responses
      [] g.client = "none" -> { [kind |-> "runtime", exc |-> NotReady] }
      [] OTHER -> { [kind |-> "runtime", exc |-> ClientClosed] }

\* The request went out.
Sent(resp) == resp.kind # "runtime"

\* Mutant: after a failed upload the job goes on to its submission.
DeliverOnward(e) ==
    /\ raised' = Some(e)
    /\ pc' = IF pc = "upload" THEN "submit" ELSE "done"
    /\ IF call = "generate_video_async"
       THEN LET h == generate_video_async_except(e, now' - job_start) IN
            /\ propagated' = ~h.caught
            /\ result' = IF h.caught THEN Some(h.response) ELSE None
       ELSE /\ propagated' = TRUE
            /\ result' = None

\* An exception leaves the running method (after its own handlers and the
\* retry decorator): generate_video_async converts it, a direct call of the
\* method lets it reach the caller.
Deliver(e) ==
    /\ raised' = Some(e)
    /\ pc' = "done"
    /\ IF call = "generate_video_async"
       THEN LET h == generate_video_async_except(e, now' - job_start) IN
            /\ propagated' = ~h.caught
            /\ result' = IF h.caught THEN Some(h.response) ELSE None
       ELSE /\ propagated' = TRUE
            /\ result' = None

-----------------------------------------------------------------------------
(* _poll_operation (generator.py 262-344) *)

\* What the last tick saw (history): the kind of answer, and for a decoded
\* body whether it has an error object, whether done is true, and whether the
\* nested path holds a URI.
NoTick == [kind |-> "", error |-> FALSE, done |-> FALSE, uri |-> FALSE]
Seen(resp) ==
    IF resp.kind = "json"
    THEN [kind |-> "json", error |-> HasError(resp.data),
          done |-> Truthy(DictGet(resp.data, "done", JBool(FALSE))),
          uri |-> ExtractVideoUri(resp.data).exc = ""]
    ELSE [NoTick EXCEPT !.kind = resp.kind]

\* Mutant: the loop starts with no interval between its ticks.
PollStartNoInterval(t, max_wait_time) ==
    [start_time |-> t, poll_interval |-> 0,
     max_wait_time |-> max_wait_time, elapsed |-> 0, ticks |-> 0, sleeps |-> 0,
     last |-> [kind |-> "", error |-> FALSE, done |-> FALSE, uri |-> FALSE],
     data |-> [some |-> FALSE]]

\* start_time = time.time(); poll_interval = INITIAL_POLL_INTERVAL
PollStart(t, max_wait_time) ==
    [start_time |-> t, poll_interval |-> INITIAL_POLL_INTERVAL,
     max_wait_time |-> max_wait_time, elapsed |-> 0, ticks |-> 0, sleeps |-> 0,
     last |-> NoTick, data |-> None]

NoPoll == PollStart(0, 0)

\* Mutant: the deadline compared with > instead of >=.
DeadlinePassed(elapsed, max_wait_time) == elapsed > max_wait_time * TicksPerSecond

\* if elapsed >= max_wait_time (line 300); max_wait_time is in seconds.
DeadlineReached(elapsed, max_wait_time) == elapsed >= max_wait_time * TicksPerSecond

\* Mutant: the backoff without its cap.
NextPollIntervalUncapped(poll_interval) ==
    (poll_interval * POLL_BACKOFF_NUM) \div POLL_BACKOFF_DEN

\* min(poll_interval * POLL_BACKOFF_MULTIPLIER, MAX_POLL_INTERVAL) (line 344)
NextPollInterval(poll_interval) ==
    Min((poll_interval * POLL_BACKOFF_NUM) \div POLL_BACKOFF_DEN, MAX_POLL_INTERVAL)

\* Lines 322-337: the body is done; the URI is extracted.
PollDone(data) ==
    LET r == ExtractVideoUri(data) IN
    CASE r.exc = "" -> [kind |-> "return", uri |-> r.val.x]
      [] r.exc = "KeyError" ->
           [kind |-> "raise",
            exc |-> APIError("Could not extract video URI: 'key'", None, Some(data))]
      [] OTHER ->
           \* IndexError, TypeError: only KeyError is caught (line 333)
           [kind |-> "raise",
            exc |-> Builtin(r.exc, "not subscriptable or out of range")]

\* Mutant: done is looked at before the error object.
PollBodyDoneFirst(data) ==
    IF Truthy(DictGet(data, "done", JBool(FALSE)))
    THEN PollDone(data)
    ELSE IF HasError(data)
    THEN [kind |-> "raise",
          exc |-> APIError("Video generation failed", None,
                           Some(DictGet(data, "error", JNull)))]
    ELSE [kind |-> "sleep"]

\* Mutant: the URI is taken as soon as the body has a response.
PollBodyEarly(data) ==
    IF HasError(data)
    THEN [kind |-> "raise",
          exc |-> APIError("Video generation failed", None,
                           Some(DictGet(data, "error", JNull)))]
    ELSE IF "response" \in DOMAIN data.f
    THEN PollDone(data)
    ELSE [kind |-> "sleep"]

\* Lines 313-337 for a decoded body: the error object is looked for first.
PollBody(data) ==
    IF HasError(data)
    THEN [kind |-> "raise",
          exc |-> APIError("Video generation failed", None,
                           Some(DictGet(data, "error", JNull)))]
    ELSE IF Truthy(DictGet(data, "done", JBool(FALSE)))
    THEN PollDone(data)
    ELSE [kind |-> "sleep"]

\* Mutant: an HTTP error status ends the poll with an APIError.
PollResponseStatusRaises(resp) ==
    CASE resp.kind \in {"transport", "runtime"} ->
            [kind |-> "raise", exc |-> resp.exc]
      [] resp.kind = "status" ->
            [kind |-> "raise",
             exc |-> APIError("API request failed: " \o Str(resp.exc),
                              Some(resp.exc.status_code), None)]
      [] OTHER -> PollBody(resp.data)

\* Lines 309-340: what one status response leads to: the URI is returned, an
\* exception leaves the method, or the loop goes on to the sleep.
PollResponse(resp) ==
    CASE resp.kind \in {"transport", "runtime"} ->
            \* not an HTTPStatusError: line 339 does not catch it
            [kind |-> "raise", exc |-> resp.exc]
      [] resp.kind = "status" ->
            \* raise_for_status; caught at line 339 and logged
            [kind |-> "sleep"]
      [] OTHER -> PollBody(resp.data)

\* How a poll run ended: the outcome and the number of status GETs sent.
PollEnded(o) == Some([kind |-> o.kind, uri |-> IF o.kind = "return" THEN Some(o.uri) ELSE None,
                      exc |-> IF o.kind = "raise" THEN Some(o.exc) ELSE None,
                      gets |-> net'.gets])

\* The time a status request may take, after net.slow slow ones.
Latencies == {0} \cup (IF net.slow < MaxSlow THEN {SlowSeconds * TicksPerSecond} ELSE {})

\* while True: elapsed = time.time() - start_time; the deadline is reached:
\* raise TimeoutError (lines 298-304). No status request is sent.
_poll_operation_timeout ==
    /\ pc = "poll"
    /\ LET elapsed == now - poll.start_time
           e == TimeoutError("Operation timed out after "
                             \o ToString(poll.max_wait_time) \o " seconds",
                             Some(elapsed))
       IN /\ DeadlineReached(elapsed, poll.max_wait_time)
          /\ poll' = [poll EXCEPT !.elapsed = elapsed]
          /\ UNCHANGED <<now, net>>
          /\ poll_outcome' = PollEnded([kind |-> "raise", exc |-> e])
          /\ Deliver(e)
    /\ UNCHANGED <<generator, batch, util, call, request, job_start, attempt, image_uri, operation_name,
                   video_uri, fs, dl, download_outcome>>

\* One tick before the deadline: the status GET and what its answer leads to
\* (lines 298-340).
_poll_operation_tick ==
    /\ pc = "poll"
    /\ LET elapsed == now - poll.start_time IN
       /\ ~DeadlineReached(elapsed, poll.max_wait_time)
       /\ \E resp \in ClientResponses(generator, StatusResponses) :
          \E latency \in IF Sent(resp) THEN Latencies ELSE {0} :
            LET o == PollResponse(resp) IN
            /\ now' = now + latency
            /\ net' = [net EXCEPT !.gets = IF Sent(resp) THEN @ + 1 ELSE @,
                                  !.polled = IF Sent(resp) THEN operation_name.val ELSE @,
                                  !.slow = IF latency > 0 THEN @ + 1 ELSE @]
            /\ poll' = [poll EXCEPT !.elapsed = elapsed, !.ticks = @ + 1,
                                    !.last = Seen(resp),
                                    !.data = IF resp.kind = "json" /\ o.kind # "sleep"
                                             THEN Some(resp.data) ELSE None]
            /\ CASE o.kind = "sleep" ->
                      /\ pc' = "sleep"
                      /\ UNCHANGED <<poll_outcome, video_uri, dl, raised, propagated, result>>
                 [] o.kind = "return" ->
                      /\ poll_outcome' = PollEnded(o)
                      /\ video_uri' = Some(o.uri)
                      /\ pc' = IF call = "generate_video_async" THEN "download" ELSE "done"
                      /\ UNCHANGED <<dl, raised, propagated, result>>
                 [] OTHER ->
                      /\ poll_outcome' = PollEnded(o)
                      /\ Deliver(o.exc)
                      /\ UNCHANGED <<video_uri, dl>>
    /\ UNCHANGED <<generator, batch, util, call, request, job_start, attempt, image_uri, operation_name,
                   fs, download_outcome>>

\* await asyncio.sleep(poll_interval); then the backoff (lines 343-344).
_poll_operation_sleep ==
    /\ pc = "sleep"
    /\ now' = now + poll.poll_interval
    /\ poll' = [poll EXCEPT !.poll_interval = NextPollInterval(@),
                            !.sleeps = @ + 1]
    /\ pc' = "poll"
    /\ UNCHANGED <<generator, batch, util, call, request, job_start, attempt, image_uri, operation_name,
                   video_uri, net, fs, dl, poll_outcome, download_outcome,
                   raised, propagated, result>>

-----------------------------------------------------------------------------
(* The retry decorator of _upload_image, _initiate_generation and           *)
(* _download_video (generator.py 142-147, 196-201, 346-351).                *)

Pow2(n) == IF n <= 0 THEN 1 ELSE 2 ^ n

\* Mutant: no exception is retried.
TenacityNever(e, attempt_number) == "reraise"

\* retry_if_exception_type(httpx.HTTPError), stop_after_attempt(MAX_RETRY_ATTEMPTS),
\* reraise=True: what happens to exception e leaving attempt attempt_number.
Tenacity(e, attempt_number) ==
    IF IsHTTPError(e) /\ attempt_number < MAX_RETRY_ATTEMPTS THEN "retry" ELSE "reraise"

\* wait_exponential(multiplier=1, min=RETRY_MIN_WAIT, max=RETRY_MAX_WAIT), in clock units
RetryWait(attempt_number) ==
    Max(Max(0, RETRY_MIN_WAIT), Min(Pow2(attempt_number - 1), RETRY_MAX_WAIT)) * TicksPerSecond

\* An attempt of a decorated method ended with exception e: sleep and run the
\* method again (at position again), or let e leave the method.
Retrying(e, again) ==
    IF Tenacity(e, attempt) = "retry"
    THEN /\ attempt' = attempt + 1
         /\ now' = now + RetryWait(attempt)
         /\ pc' = again
         /\ UNCHANGED <<raised, propagated, result>>
    ELSE /\ UNCHANGED <<attempt, now>>
         /\ Deliver(e)

-----------------------------------------------------------------------------
(* models.py: VideoRequest (lines 25-65) *)

\* str.lower() on the suffixes that occur.
Lower(suffix) ==
    CASE suffix = ".MP4" -> ".mp4"
      [] suffix = ".JPG" -> ".jpg"
      [] OTHER -> suffix

valid_extensions == {".jpg", ".jpeg", ".png", ".gif", ".bmp", ".webp"}
MaxPromptLength == 2000

\* A prompt is its length and the length of prompt.strip().
Prompt(len, stripped) == [len |-> len, stripped |-> stripped]
Strip(p) == Prompt(p.stripped, p.stripped)

\* Mutant: the validation without the test of the stripped prompt.
PromptValidUnstripped(p) == p.len >= 1 /\ p.len <= MaxPromptLength

PromptValid(p) == p.len >= 1 /\ p.len <= MaxPromptLength /\ Strip(p).len > 0
OutputPathValid(o) == ~o.some \/ Lower(o.val.suffix) = ".mp4"
ImagePathValid(i) == ~i.some \/ (i.val.exists /\ Lower(i.val.suffix) \in valid_extensions)

\* VideoRequest(prompt=..., output_path=..., image_path=...): the validated
\* request, or pydantic's ValidationError.
VideoRequest(prompt, output_path, image_path) ==
    IF PromptValid(prompt) /\ OutputPathValid(output_path) /\ ImagePathValid(image_path)
    THEN [exc |-> None,
          val |-> [prompt |-> Strip(prompt), output_path |-> output_path,
                   image_path |-> image_path]]
    ELSE [exc |-> Some(Builtin("pydantic.ValidationError",
                               "1 validation error for VideoRequest"))]

\* Path(generate_filename(prompt)) (utils.py 43-72)
GeneratedPath == [stem |-> "veo_prompt_1700000000", suffix |-> ".mp4"]

-----------------------------------------------------------------------------
(* generate_video_async (generator.py 446-514): validation, lines 466-482.  *)

generate_video_async_start ==
    /\ pc = "start"
    /\ LET r == VideoRequest(request.prompt, request.output_path, request.image_path) IN
       IF r.exc.some
       THEN /\ UNCHANGED <<request, now, attempt>>
            /\ Deliver(r.exc.val)
       ELSE /\ request' = [r.val EXCEPT !.output_path =
                               IF r.val.output_path.some THEN @ ELSE Some(GeneratedPath)]
            /\ pc' = IF r.val.image_path.some THEN "upload" ELSE "submit"
            /\ UNCHANGED <<now, attempt, raised, propagated, result>>
    /\ UNCHANGED <<generator, batch, util, call, job_start, image_uri, operation_name, video_uri, poll,
                   net, fs, dl, poll_outcome, download_outcome>>

-----------------------------------------------------------------------------
(* _upload_image (generator.py 142-194) *)

UploadResponses ==
    { [kind |-> "transport", exc |-> e] : e \in TransportExceptions }
    \cup { [kind |-> "status", exc |-> HTTPStatusError(413, JObj(EmptyDict))] }
    \cup { [kind |-> "json", data |-> d] :
             d \in { JObj([file |-> JObj([uri |-> JStr("files/img-1")])]),
                     JObj([file |-> JObj(EmptyDict)]),
                     JObj([file |-> JObj([uri |-> JStr("")])]),
                     JObj(EmptyDict),
                     JObj([file |-> JNull]) } }

\* Lines 161-194: the body of one attempt.
UploadBody(resp) ==
    CASE resp.kind \in {"transport", "status", "runtime"} ->
            \* except Exception (line 192)
            [kind |-> "raise",
             exc |-> APIError("Image upload failed: " \o Str(resp.exc), None, None)]
      [] OTHER ->
            LET file == DictGet(resp.data, "file", JObj(EmptyDict)) IN
            IF file.t # "dict"
            THEN \* AttributeError: no get; caught at line 192
                 [kind |-> "raise",
                  exc |-> APIError("Image upload failed: "
                                   \o "object has no attribute 'get'", None, None)]
            ELSE LET file_uri == DictGet(file, "uri", JNull) IN
                 IF Truthy(file_uri)
                 THEN [kind |-> "return", uri |-> Some(file_uri.x)]
                 ELSE [kind |-> "return", uri |-> None]

\* What the last upload attempt met (history): a transport error, an HTTP
\* error status, or a body with a file URI, without one, or with a file
\* entry that is no object.
UploadSeen(resp) ==
    CASE resp.kind \in {"transport", "status", "runtime"} -> resp.kind
      [] UploadBody(resp).kind = "raise" -> "nofile"
      [] UploadBody(resp).uri.some -> "uri"
      [] OTHER -> "nouri"

_upload_image ==
    /\ pc = "upload"
    /\ \E resp \in ClientResponses(generator, UploadResponses) :
         LET o == UploadBody(resp) IN
         /\ net' = [net EXCEPT !.uploads = IF Sent(resp) THEN @ + 1 ELSE @,
                               !.upload = UploadSeen(resp)]
         /\ IF o.kind = "raise"
            THEN /\ Retrying(o.exc, "upload")
                 /\ UNCHANGED image_uri
            ELSE /\ image_uri' = o.uri
                 /\ attempt' = 1
                 /\ pc' = IF call = "generate_video_async" THEN "submit" ELSE "done"
                 /\ UNCHANGED <<now, raised, propagated, result>>
    /\ UNCHANGED <<generator, batch, util, call, request, job_start, operation_name, video_uri, poll,
                   fs, dl, poll_outcome, download_outcome>>

-----------------------------------------------------------------------------
(* _initiate_generation (generator.py 196-260) *)

\* The body of an error response: JSON, or text that is not JSON.
RawText(x) == [t |-> "raw", x |-> x]

\* error_data (lines 249-253): e.response.json(), or {"text": e.response.text}
\* when the body does not parse.
ErrorData(body) == IF body.t = "raw" THEN JObj([text |-> JStr(body.x)]) ELSE body

SubmitResponses ==
    { [kind |-> "transport", exc |-> e] : e \in TransportExceptions }
    \cup { [kind |-> "status", exc |-> HTTPStatusError(400, JObj([error |-> ErrorPayload]))],
           [kind |-> "status", exc |-> HTTPStatusError(500, RawText("Internal Server Error"))] }
    \cup { [kind |-> "json", status_code |-> 200, data |-> d] :
             d \in { JObj([name |-> JStr("operations/op-1")]),
                     JObj([name |-> JStr("")]),
                     JObj([name |-> JNull]),
                     JObj(EmptyDict) } }

\* not prompt or not prompt.strip() (line 217)
PromptBlank(p) == p.len = 0 \/ Strip(p).len = 0

\* Mutant: an HTTP error status leaves the method as the HTTPStatusError.
SubmitBodyStatusUnwrapped(prompt, resp) ==
    IF resp.kind \in {"transport", "status"}
    THEN [kind |-> "raise", posted |-> TRUE, exc |-> resp.exc]
    ELSE LET operation == DictGet(resp.data, "name", JNull) IN
         IF ~Truthy(operation)
         THEN [kind |-> "raise", posted |-> TRUE,
               exc |-> APIError("No operation name returned from API",
                                Some(resp.status_code), Some(resp.data))]
         ELSE [kind |-> "return", posted |-> TRUE, name |-> operation.x]

\* Mutant: a name that is a string is returned, empty or not.
SubmitBodyAnyName(prompt, resp) ==
    CASE resp.kind = "transport" ->
            [kind |-> "raise", posted |-> TRUE, exc |-> resp.exc]
      [] resp.kind = "status" ->
            [kind |-> "raise", posted |-> TRUE,
             exc |-> APIError("API request failed: " \o Str(resp.exc),
                              Some(resp.exc.status_code), Some(ErrorData(resp.exc.body)))]
      [] OTHER ->
            LET operation == DictGet(resp.data, "name", JNull) IN
            IF operation.t # "str"
            THEN [kind |-> "raise", posted |-> TRUE,
                  exc |-> APIError("No operation name returned from API",
                                   Some(resp.status_code), Some(resp.data))]
            ELSE [kind |-> "return", posted |-> TRUE, name |-> operation.x]

\* Lines 217-260: the body of one attempt.
SubmitBody(prompt, resp) ==
    IF PromptBlank(prompt)
    THEN [kind |-> "raise", posted |-> FALSE,
          exc |-> ValidationError("Prompt cannot be empty", Some("prompt"))]
    ELSE CASE resp.kind \in {"transport", "runtime"} ->
                 \* not an HTTPStatusError: leaves the try unchanged
                 [kind |-> "raise", posted |-> Sent(resp), exc |-> resp.exc]
           [] resp.kind = "status" ->
                 [kind |-> "raise", posted |-> TRUE,
                  exc |-> APIError("API request failed: " \o Str(resp.exc),
                                   Some(resp.exc.status_code),
                                   Some(ErrorData(resp.exc.body)))]
           [] OTHER ->
                 LET operation == DictGet(resp.data, "name", JNull) IN
                 IF ~Truthy(operation)
                 THEN [kind |-> "raise", posted |-> TRUE,
                       exc |-> APIError("No operation name returned from API",
                                        Some(resp.status_code), Some(resp.data))]
                 ELSE [kind |-> "return", posted |-> TRUE, name |-> operation.x]

_initiate_generation ==
    /\ pc = "submit"
    /\ \E resp \in ClientResponses(generator, SubmitResponses) :
         LET o == SubmitBody(request.prompt, resp) IN
         /\ net' = [net EXCEPT !.posts = IF o.posted THEN @ + 1 ELSE @,
                               !.submit = IF o.posted THEN Some(resp) ELSE @,
                               !.with_image = image_uri.some]
         /\ IF o.kind = "raise"
            THEN /\ Retrying(o.exc, "submit")
                 /\ UNCHANGED <<operation_name, poll>>
            ELSE /\ operation_name' = Some(o.name)
                 /\ attempt' = 1
                 /\ poll' = IF call = "generate_video_async"
                            THEN PollStart(now, DEFAULT_MAX_WAIT_TIME) ELSE poll
                 /\ pc' = IF call = "generate_video_async" THEN "poll" ELSE "done"
                 /\ UNCHANGED <<now, raised, propagated, result>>
    /\ UNCHANGED <<generator, batch, util, call, request, job_start, image_uri, video_uri, fs, dl,
                   poll_outcome, download_outcome>>

-----------------------------------------------------------------------------
(* _download_video (generator.py 346-444) *)

DOWNLOAD_CHUNK_SIZE == 8192
BytesPerMB == 1024 * 1024

\* What the streaming GET answers before the body: a transport error, an HTTP
\* error status, or a 2xx response whose body is then streamed.
DownloadResponses ==
    { [kind |-> "transport", exc |-> e] : e \in TransportExceptions }
    \cup { [kind |-> "status", exc |-> HTTPStatusError(c, JObj(EmptyDict))] : c \in {403, 500} }
    \cup { [kind |-> "stream"] }

\* aiter_bytes(chunk_size=DOWNLOAD_CHUNK_SIZE): an empty chunk or a full one.
ChunkSizes == {0, DOWNLOAD_CHUNK_SIZE}

\* What breaks the loop over the chunks: a transport error while the stream is
\* read, or an error of f.write.
StreamExceptions ==
    { Builtin("ReadTimeout", ""),
      Builtin("OSError", "[Errno 28] No space left on device") }

\* Mutant: the file is left where it is.
Keep(file) == file

\* output_path.unlink()
Unlink(file) == [exists |-> FALSE, size |-> 0]
\* open(output_path, "wb")
OpenWb(file) == [exists |-> TRUE, size |-> 0]
\* f.write(chunk)
Write(file, n) == [file EXCEPT !.size = @ + n]

\* Mutant: one clause for every exception.
DownloadExceptAny(e, file, uri) ==
    [exc |-> DownloadError("Download failed: " \o Str(e), Some(uri)),
     file |-> IF file.exists THEN Unlink(file) ELSE file]

\* Mutant: the clauses without the removal of the file.
DownloadExceptKeep(e, file, uri) ==
    IF IsHTTPStatusError(e)
    THEN [exc |-> DownloadError("Download failed with status " \o ToString(e.status_code),
                                Some(uri)),
          file |-> file]
    ELSE [exc |-> DownloadError("Download failed: " \o Str(e), Some(uri)),
          file |-> file]

\* The except clauses (lines 433-444) for exception e leaving the try block:
\* the DownloadError raised instead, and the file afterwards.
DownloadExcept(e, file, uri) ==
    IF IsHTTPStatusError(e)
    THEN [exc |-> DownloadError("Download failed with status " \o ToString(e.status_code),
                                Some(uri)),
          file |-> file]
    ELSE [exc |-> DownloadError("Download failed: " \o Str(e), Some(uri)),
          file |-> IF file.exists THEN Unlink(file) ELSE file]

\* Mutant: the verification without the test for an empty file.
DownloadVerifyExists(file, uri) ==
    IF ~file.exists
    THEN [kind |-> "raise", file |-> file,
          exc |-> DownloadError("Downloaded file does not exist", Some(uri))]
    ELSE [kind |-> "return", file |-> file]

\* Lines 410-431, after the stream ended: the verification of the file.
DownloadVerify(file, uri) ==
    IF ~file.exists
    THEN [kind |-> "raise", file |-> file,
          exc |-> DownloadError("Downloaded file does not exist", Some(uri))]
    ELSE IF file.size = 0
    THEN [kind |-> "raise", file |-> Unlink(file),
          exc |-> DownloadError("Downloaded file is empty", Some(uri))]
    ELSE [kind |-> "return", file |-> file]

\* How an attempt of _download_video ended.
DownloadRaised(e) ==
    Some([kind |-> "raise", exc |-> Some(e), attempts |-> dl'.attempts,
          wrote |-> dl'.opened, file |-> fs'])
DownloadReturned ==
    Some([kind |-> "return", exc |-> None, attempts |-> dl'.attempts,
          wrote |-> dl'.opened, file |-> fs'])

\* The kind of failure that left the try block (history).
Cause(e) ==
    CASE e.type \in TransportErrors -> "transport"
      [] e.type = "RuntimeError" -> "client"
      [] IsHTTPStatusError(e) -> "status"
      [] e.type = "DownloadError" -> "verify"
      [] OTHER -> "write"

\* The status code of the response that failed raise_for_status (history).
Status(e) == IF IsHTTPStatusError(e) THEN Some(e.status_code) ELSE None

\* Exception e left the try block of an attempt, with the file as it is then:
\* the except clauses, then the retry decorator.
DownloadFails(e, file, attempts) ==
    LET h == DownloadExcept(e, file, video_uri.val) IN
    /\ fs' = h.file
    /\ IF Tenacity(h.exc, attempt) = "retry"
       THEN /\ dl' = [dl EXCEPT !.attempts = attempts, !.cause = Cause(e),
                                !.status = Status(e),
                                !.opened = FALSE, !.downloaded_bytes = 0, !.chunks = 0]
            /\ UNCHANGED download_outcome
       ELSE /\ dl' = [dl EXCEPT !.attempts = attempts, !.cause = Cause(e),
                                !.status = Status(e)]
            /\ download_outcome' = DownloadRaised(h.exc)
    /\ Retrying(h.exc, "download")
    /\ UNCHANGED <<video_uri, poll, poll_outcome>>

\* client.stream("GET", ...) and raise_for_status (lines 372-380); on a 2xx
\* response the target is opened for writing (line 401).
_download_video_open ==
    /\ pc = "download"
    /\ \E resp \in ClientResponses(generator, DownloadResponses) :
         /\ net' = [net EXCEPT !.streams = IF Sent(resp) THEN @ + 1 ELSE @]
         /\ IF resp.kind = "stream"
            THEN /\ dl' = [dl EXCEPT !.attempts = @ + 1, !.opened = TRUE,
                                     !.downloaded_bytes = 0, !.chunks = 0]
                 /\ fs' = OpenWb(fs)
                 /\ pc' = "stream"
                 /\ UNCHANGED <<now, attempt, raised, propagated, result, download_outcome,
                                video_uri, poll, poll_outcome>>
            ELSE DownloadFails(resp.exc, fs, dl.attempts + 1)
    /\ UNCHANGED <<generator, batch, util, call, request, job_start, image_uri, operation_name>>

\* One chunk of the stream is written (lines 402-408).
_download_video_chunk ==
    /\ pc = "stream"
    /\ dl.chunks < MaxChunks
    /\ \E n \in ChunkSizes :
         /\ fs' = IF n > 0 THEN Write(fs, n) ELSE fs
         /\ dl' = [dl EXCEPT !.chunks = @ + 1,
                             !.downloaded_bytes = IF n > 0 THEN @ + n ELSE @]
    /\ UNCHANGED <<generator, batch, util, call, pc, request, now, job_start, attempt, image_uri,
                   operation_name, video_uri, poll, net, poll_outcome,
                   download_outcome, raised, propagated, result>>

\* The stream breaks while it is read (a transport error inside the loop).
_download_video_stream_error ==
    /\ pc = "stream"
    /\ \E e \in StreamExceptions : DownloadFails(e, fs, dl.attempts)
    /\ UNCHANGED <<generator, batch, util, call, request, job_start, image_uri, operation_name, net>>

\* The stream ended: the verification (lines 410-431); when _download_video
\* returns, generate_video_async returns the successful VideoResponse (lines
\* 490-501).
_download_video_finish ==
    /\ pc = "stream"
    /\ LET v == DownloadVerify(fs, video_uri.val) IN
       IF v.kind = "raise"
       THEN \* raised inside the try block: the except clause at line 438 sees it
            DownloadFails(v.exc, v.file, dl.attempts)
       ELSE /\ fs' = v.file
            /\ UNCHANGED <<dl, now, attempt>>
            /\ download_outcome' = DownloadReturned
            /\ raised' = None
            /\ propagated' = FALSE
            /\ pc' = "done"
            /\ result' = IF call = "generate_video_async"
                          THEN Some(VideoResponse(TRUE, request.output_path, operation_name,
                                       video_uri,
                                       Some([bytes |-> v.file.size, per |-> BytesPerMB]),
                                       Some(now - job_start), None, None))
                          ELSE None
    /\ UNCHANGED <<generator, batch, util, call, request, job_start, image_uri, operation_name, video_uri,
                   poll, net, poll_outcome>>

-----------------------------------------------------------------------------
(* utils.py: parse_video_uri (lines 75-109).                                *)
(* A string is a sequence of tokens, its value their concatenation.  The    *)
(* tokens are chosen so that the two texts the function looks for occur in  *)
(* a string only as whole tokens: startswith, endswith and replace on the   *)
(* characters are then the same operations on the tokens.                   *)

GooglePrefix == "https://generativelanguage.googleapis.com/"
V1Beta == "/v1beta"

UriTokens == { GooglePrefix, "v1beta/", "files/", "abc123" }
BaseTokens == { "https://api.thucchien.ai", "/gemini", V1Beta }

\* The string a sequence of tokens stands for.
RECURSIVE Concat(_)
Concat(s) == IF s = <<>> THEN "" ELSE Head(s) \o Concat(Tail(s))

\* s.startswith(text), s.endswith(text)
StartsWith(s, text) == Len(s) > 0 /\ s[1] = text
EndsWith(s, text) == Len(s) > 0 /\ s[Len(s)] = text

\* s.replace(old, new): every occurrence of old is replaced.
RECURSIVE Replace(_, _, _)
Replace(s, old, new) ==
    IF s = <<>> THEN <<>>
    ELSE (IF Head(s) = old THEN new ELSE <<Head(s)>>) \o Replace(Tail(s), old, new)

parse_video_uri(uri, base_url) ==
    LET relative_path == IF StartsWith(uri, GooglePrefix)
                         THEN Replace(uri, GooglePrefix, <<>>)
                         ELSE uri
        base_path == IF EndsWith(base_url, V1Beta)
                     THEN Replace(base_url, V1Beta, <<"/download">>)
                     ELSE base_url
    IN Concat(base_path) \o "/" \o Concat(relative_path)

\* Strings of at most n tokens.
Strings(tokens, n) == UNION { [1..k -> tokens] : k \in 0..n }

\* A call parse_video_uri(video_uri, base_url).
call_parse_video_uri ==
    /\ call = "parse_video_uri"
    /\ pc = "call"
    /\ util' = [util EXCEPT !.ret = Some(parse_video_uri(util.video_uri, util.base_url))]
    /\ pc' = "done"
    /\ UNCHANGED <<generator, batch, call, request, now, job_start, attempt, image_uri,
                   operation_name, video_uri, poll, net, fs, dl, poll_outcome,
                   download_outcome, raised, propagated, result>>

-----------------------------------------------------------------------------
(* utils.py: sanitize_filename (lines 12-40), as generate_filename calls it *)
(* (line 61).  A text is the sequence of its characters.                    *)

\* The characters of a text: a letter, a digit, the underscore, the space, the
\* hyphen and a punctuation mark.
Chars == {"a", "1", "_", " ", "-", "!"}

\* sanitize_filename(prompt, max_length=30) (line 61)
FilenameMaxLength == 30

\* The classes \w and \s of re, on Chars.
IsWord(c) == c \in {"a", "1", "_"}
IsSpace(c) == c = " "

\* re.sub(r"[^\w\s-]", "", text) (line 28)
RECURSIVE RemoveSpecial(_)
RemoveSpecial(text) ==
    IF text = <<>> THEN <<>>
    ELSE (IF IsWord(Head(text)) \/ IsSpace(Head(text)) \/ Head(text) = "-"
          THEN <<Head(text)>> ELSE <<>>) \o RemoveSpecial(Tail(text))

\* re.sub(r"[\s_]+", "_", text) (line 31)
RECURSIVE CollapseSpaces(_)
CollapseSpaces(text) ==
    IF text = <<>> THEN <<>>
    ELSE IF IsSpace(Head(text)) \/ Head(text) = "_"
    THEN LET rest == CollapseSpaces(Tail(text)) IN
         IF rest # <<>> /\ Head(rest) = "_" /\ Len(text) > 1
               /\ (IsSpace(text[2]) \/ text[2] = "_")
         THEN rest ELSE <<"_">> \o rest
    ELSE <<Head(text)>> \o CollapseSpaces(Tail(text))

\* str.lstrip("_") and str.rstrip("_")
RECURSIVE LStrip(_)
LStrip(text) ==
    IF text # <<>> /\ Head(text) = "_" THEN LStrip(Tail(text)) ELSE text
RECURSIVE RStrip(_)
RStrip(text) ==
    IF text # <<>> /\ text[Len(text)] = "_"
    THEN RStrip(SubSeq(text, 1, Len(text) - 1)) ELSE text

\* Lines 28-40.
sanitize_filename(text, max_length) ==
    LET stripped == RStrip(LStrip(CollapseSpaces(RemoveSpecial(text))))
        safe_text == IF Len(stripped) > max_length
                     THEN RStrip(SubSeq(stripped, 1, max_length))
                     ELSE stripped
    IN IF safe_text = <<>> THEN <<"v", "i", "d", "e", "o">> ELSE safe_text

\* n letters.
Letters(n) == [i \in 1..n |-> "a"]

\* A call sanitize_filename(text, max_length=30).
call_sanitize_filename ==
    /\ call = "sanitize_filename"
    /\ pc = "call"
    /\ util' = [util EXCEPT !.ret = Some(sanitize_filename(util.text, util.max_length))]
    /\ pc' = "done"
    /\ UNCHANGED <<generator, batch, call, request, now, job_start, attempt, image_uri,
                   operation_name, video_uri, poll, net, fs, dl, poll_outcome,
                   download_outcome, raised, propagated, result>>

-----------------------------------------------------------------------------
(* utils.py: generate_filename (lines 43-72).  clock is what time.time()    *)
(* returns when the function is called.                                     *)

\* str(n) for a natural number n.
RECURSIVE Digits(_)
Digits(n) ==
    LET digit == <<"0", "1", "2", "3", "4", "5", "6", "7", "8", "9">>[(n % 10) + 1]
    IN IF n < 10 THEN <<digit>> ELSE Digits(n \div 10) \o <<digit>>

\* "_".join(parts)
RECURSIVE Join(_)
Join(parts) ==
    IF Len(parts) = 0 THEN <<>>
    ELSE IF Len(parts) = 1 THEN parts[1]
    ELSE parts[1] \o <<"_">> \o Join(Tail(parts))

\* Mutant: the timestamp is appended whatever the flag.
generate_filename_stamped(prompt, index, timestamp, clock) ==
    Join(<<<<"v", "e", "o">>, sanitize_filename(prompt, FilenameMaxLength)>>
         \o (IF index.some THEN <<Digits(index.val)>> ELSE <<>>)
         \o <<Digits(clock)>>)
    \o <<".", "m", "p", "4">>

\* Mutant: the index is left out of the name.
generate_filename_unindexed(prompt, index, timestamp, clock) ==
    Join(<<<<"v", "e", "o">>, sanitize_filename(prompt, FilenameMaxLength)>>
         \o (IF timestamp THEN <<Digits(clock)>> ELSE <<>>))
    \o <<".", "m", "p", "4">>

\* Lines 61-72.
generate_filename(prompt, index, timestamp, clock) ==
    Join(<<<<"v", "e", "o">>, sanitize_filename(prompt, FilenameMaxLength)>>
         \o (IF index.some THEN <<Digits(index.val)>> ELSE <<>>)
         \o (IF timestamp THEN <<Digits(clock)>> ELSE <<>>))
    \o <<".", "m", "p", "4">>

\* The next of the calls generate_filename(prompt, index, timestamp) of
\* util.args is made, at the time the call observes.
call_generate_filename ==
    /\ call = "generate_filename"
    /\ pc = "call"
    /\ LET a == util.args[Len(util.ret) + 1] IN
       util' = [util EXCEPT !.ret = Append(@, generate_filename(a.prompt, a.index,
                                                                a.timestamp, a.clock))]
    /\ pc' = IF Len(util.ret) + 1 = Len(util.args) THEN "done" ELSE "call"
    /\ UNCHANGED <<generator, batch, call, request, now, job_start, attempt, image_uri,
                   operation_name, video_uri, poll, net, fs, dl, poll_outcome,
                   download_outcome, raised, propagated, result>>

-----------------------------------------------------------------------------
(* models.py: OperationStatus (lines 68-102).  datetime.now() is the number *)
(* of calls made on the object so far.                                      *)

\* OperationStatus(operation_name=...) (lines 71-78)
OperationStatus(name, started_at) ==
    [operation_name |-> name, status |-> "pending", started_at |-> started_at,
     completed_at |-> None, elapsed_time |-> None, video_uri |-> None, error |-> None,
     error_details |-> None]

\* mark_completed (lines 80-85)
mark_completed(self, video_uri_arg, at) ==
    [self EXCEPT !.status = "completed",
                 !.video_uri = Some(video_uri_arg),
                 !.completed_at = Some(at),
                 !.elapsed_time = Some(at - self.started_at)]

\* mark_failed (lines 87-93)
mark_failed(self, error, error_details, at) ==
    [self EXCEPT !.status = "failed",
                 !.error = Some(error),
                 !.error_details = error_details,
                 !.completed_at = Some(at),
                 !.elapsed_time = Some(at - self.started_at)]

\* mark_timeout (lines 95-100)
mark_timeout(self, max_wait_time, at) ==
    [self EXCEPT !.status = "timeout",
                 !.error = Some("Operation timed out after " \o ToString(max_wait_time)
                                \o " seconds"),
                 !.completed_at = Some(at),
                 !.elapsed_time = Some(at - self.started_at)]

\* The object after a call of one of its methods: util.first keeps the object
\* as the first call left it (history).
Marked(self) ==
    [util EXCEPT !.self = self, !.calls = @ + 1,
                 !.first = IF @.some THEN @ ELSE Some(self)]

call_mark_completed ==
    /\ call = "OperationStatus"
    /\ util.calls < util.max_calls
    /\ \E u \in {"files/abc123", "files/xyz"} :
         util' = Marked(mark_completed(util.self, u, util.calls + 1))
    /\ UNCHANGED <<generator, batch, call, pc, request, now, job_start, attempt, image_uri,
                   operation_name, video_uri, poll, net, fs, dl, poll_outcome,
                   download_outcome, raised, propagated, result>>

call_mark_failed ==
    /\ call = "OperationStatus"
    /\ util.calls < util.max_calls
    /\ \E e \in {"Video generation failed", "No operation name returned from API"},
          d \in {None, Some("details")} :
         util' = Marked(mark_failed(util.self, e, d, util.calls + 1))
    /\ UNCHANGED <<generator, batch, call, pc, request, now, job_start, attempt, image_uri,
                   operation_name, video_uri, poll, net, fs, dl, poll_outcome,
                   download_outcome, raised, propagated, result>>

call_mark_timeout ==
    /\ call = "OperationStatus"
    /\ util.calls < util.max_calls
    /\ \E w \in {0, DEFAULT_MAX_WAIT_TIME} :
         util' = Marked(mark_timeout(util.self, w, util.calls + 1))
    /\ UNCHANGED <<generator, batch, call, pc, request, now, job_start, attempt, image_uri,
                   operation_name, video_uri, poll, net, fs, dl, poll_outcome,
                   download_outcome, raised, propagated, result>>

-----------------------------------------------------------------------------
(* generate_batch (generator.py 516-596).  A task runs _generate_with_limit *)
(* for one prompt: it acquires the semaphore, then runs generate_video_async *)
(* one step at a time (validation, upload, submission, poll, download),     *)
(* each step but the validation sending a request and each able to fail.    *)

MAX_CONCURRENT_LIMIT == 10

\* The steps of generate_video_async, during which the task holds a permit.
Steps == {"validate", "upload", "submit", "poll", "download"}

\* The step after step, for a job with or without an image (lines 476-488).
NextStep(step, image) ==
    CASE step = "validate" -> IF image THEN "upload" ELSE "submit"
      [] step = "upload" -> "submit"
      [] step = "submit" -> "poll"
      [] step = "poll" -> "download"
      [] OTHER -> "done"

\* A task that has not yet entered `async with semaphore`.  prompt is the
\* type of its prompt ("str", or "int" for a list entry that is no string);
\* acquired and released count its acquire and release of the semaphore.
NewTask(prompt, image) ==
    [pc |-> "acquire", prompt |-> prompt, image |-> image, requests |-> 0,
     acquired |-> 0, released |-> 0, result |-> None, raised |-> None]

\* Mutant: a permit is always to be had.
SemaphoreAlwaysFree(value) == TRUE

\* asyncio.Semaphore.acquire returns at once when the value is positive
\* (line 560).
SemaphoreFree(value) == value > 0

\* Mutant: leaving the block gives no permit back.
ReleaseNone(value) == value

\* Entering and leaving `async with semaphore` (line 560).
Acquire(value) == value - 1
Release(value) == value + 1

\* generate_filename(prompt, index=index) (line 561): re.sub raises TypeError
\* for a prompt that is no string.
GenerateFilenameRaises(prompt) == prompt # "str"

\* VideoResponse.is_success (models.py 117-120)
IsSuccess(r) == r.success /\ r.video_path.some

\* The VideoResponse of the task with batch index index.
TaskResponse(ok, index) ==
    [success |-> ok, index |-> index,
     video_path |-> IF ok THEN Some([index |-> index, suffix |-> ".mp4"]) ELSE None]

\* Mutant: a task that fails takes its siblings with it.
AfterStepCancel(tasks, i, task) ==
    [j \in DOMAIN tasks |->
        IF j = i THEN task
        ELSE IF task.result.some /\ ~task.result.val.success /\ tasks[j].pc # "done"
        THEN [tasks[j] EXCEPT !.pc = "done", !.result = Some(TaskResponse(FALSE, j - 1))]
        ELSE tasks[j]]

\* The tasks after task i took a step: the other tasks are as they were.
AfterStep(tasks, i, task) == [tasks EXCEPT ![i] = task]

\* Mutant: every result counts as a success.
SuccessfulAll(results) == Len(results)

\* sum(1 for r in results if r.is_success) (line 576)
RECURSIVE Successful(_)
Successful(results) ==
    IF results = <<>> THEN 0
    ELSE (IF IsSuccess(Head(results)) THEN 1 ELSE 0) + Successful(Tail(results))

\* models.py 130-137
BatchResult(total, successful, failed, results) ==
    [total |-> total, successful |-> successful, failed |-> failed, results |-> results]

\* BatchResult.success_rate (models.py 139-142), as a fraction.
success_rate(b) ==
    IF b.total > 0
    THEN [num |-> b.successful * 100, den |-> b.total]
    ELSE [num |-> 0, den |-> 1]

\* Mutant: the result of the task that completed first comes first.
GatherFirstDone(tasks, first) ==
    IF first.some
    THEN <<tasks[first.val].result.val>>
         \o [k \in 1..(Len(tasks) - 1) |->
                tasks[IF k < first.val THEN k ELSE k + 1].result.val]
    ELSE <<>>

\* asyncio.gather(*tasks) (line 572): the results in the order of the tasks,
\* whatever the order of their completion (first is the task that completed
\* first).
Gather(tasks, first) == [i \in 1..Len(tasks) |-> tasks[i].result.val]

\* gather has the result of every task.
GatherDone(tasks) == \A i \in DOMAIN tasks : tasks[i].pc = "done"

\* The first task to complete (history), and with return_exceptions=False the
\* first exception a task ended with, which gather raises.
FirstDone(first, i) == IF first.some THEN first ELSE Some(i)
FirstRaised(exception, e) == IF exception.some THEN exception ELSE Some(e)

\* The tasks run while generate_batch awaits gather, and go on when gather
\* has raised.
TasksRun == batch.pc \in {"gather", "raised"}

\* Lines 552-572: asyncio.Semaphore(concurrent_limit) raises ValueError for a
\* negative value; otherwise one task per prompt is created and gathered.
generate_batch_start ==
    /\ call = "generate_batch"
    /\ batch.pc = "start"
    /\ IF batch.concurrent_limit < 0
       THEN batch' = [batch EXCEPT !.pc = "raised",
                        !.raised = Some(Builtin("ValueError",
                                                "Semaphore initial value must be >= 0"))]
       ELSE batch' = [batch EXCEPT !.pc = "gather",
                        !.semaphore = Some(batch.concurrent_limit),
                        !.tasks = [i \in 1..Len(batch.prompts) |->
                                      NewTask(batch.prompts[i], batch.image_paths[i])]]
    /\ UNCHANGED <<generator, util, call, pc, request, now, job_start, attempt, image_uri,
                   operation_name, video_uri, poll, net, fs, dl, poll_outcome,
                   download_outcome, raised, propagated, result>>

\* async with semaphore (line 560): a task takes a permit.  For a prompt that
\* is no string generate_filename raises at once (line 561): the exception
\* leaves the block, which releases the permit, and ends the task.
_generate_with_limit_acquire ==
    /\ call = "generate_batch"
    /\ TasksRun
    /\ \E i \in DOMAIN batch.tasks :
         LET task == batch.tasks[i] IN
         /\ task.pc = "acquire"
         /\ SemaphoreFree(batch.semaphore.val)
         /\ IF GenerateFilenameRaises(task.prompt)
            THEN LET e == Builtin("TypeError", "expected string or bytes-like object") IN
                 batch' = [batch EXCEPT
                    !.semaphore = Some(Release(Acquire(@.val))),
                    !.first = FirstDone(@, i),
                    !.exception = FirstRaised(@, e),
                    !.tasks = AfterStep(@, i,
                        [task EXCEPT !.pc = "done", !.acquired = @ + 1, !.released = @ + 1,
                           !.raised = Some(e)])]
            ELSE batch' = [batch EXCEPT
                    !.semaphore = Some(Acquire(@.val)),
                    !.tasks = AfterStep(@, i,
                        [task EXCEPT !.pc = "validate", !.acquired = @ + 1])]
    /\ UNCHANGED <<generator, util, call, pc, request, now, job_start, attempt, image_uri,
                   operation_name, video_uri, poll, net, fs, dl, poll_outcome,
                   download_outcome, raised, propagated, result>>

\* One step of generate_video_async in a task (line 566): the step sends its
\* request, and fails or completes.  When the call returns its VideoResponse,
\* failed or successful, the task leaves `async with` and the permit is
\* released.
_generate_with_limit_step ==
    /\ call = "generate_batch"
    /\ TasksRun
    /\ \E i \in DOMAIN batch.tasks, ok \in BOOLEAN :
         LET task == batch.tasks[i]
             next == IF ok THEN NextStep(task.pc, task.image) ELSE "done"
             sent == IF task.pc = "validate" THEN task.requests ELSE task.requests + 1
         IN /\ task.pc \in Steps
            /\ batch' = [batch EXCEPT
                    !.tasks = AfterStep(@, i,
                        [task EXCEPT !.pc = next, !.requests = sent,
                           !.released = IF next = "done" THEN @ + 1 ELSE @,
                           !.result = IF next = "done"
                                      THEN Some(TaskResponse(ok, i - 1)) ELSE None]),
                    !.first = IF next = "done" THEN FirstDone(@, i) ELSE @,
                    !.semaphore = IF next = "done" THEN Some(Release(@.val)) ELSE @]
    /\ UNCHANGED <<generator, util, call, pc, request, now, job_start, attempt, image_uri,
                   operation_name, video_uri, poll, net, fs, dl, poll_outcome,
                   download_outcome, raised, propagated, result>>

\* A task ended with an exception: gather raises it in generate_batch, which
\* has no handler (line 572).  The other tasks are not cancelled.
generate_batch_raise ==
    /\ call = "generate_batch"
    /\ batch.pc = "gather"
    /\ batch.exception.some
    /\ batch' = [batch EXCEPT !.pc = "raised", !.raised = batch.exception]
    /\ UNCHANGED <<generator, util, call, pc, request, now, job_start, attempt, image_uri,
                   operation_name, video_uri, poll, net, fs, dl, poll_outcome,
                   download_outcome, raised, propagated, result>>

\* asyncio.gather has every result (line 572); the BatchResult is built
\* (lines 575-596).
generate_batch_return ==
    /\ call = "generate_batch"
    /\ batch.pc = "gather"
    /\ GatherDone(batch.tasks)
    /\ ~batch.exception.some
    /\ LET results == Gather(batch.tasks, batch.first)
           successful == Successful(results)
       IN batch' = [batch EXCEPT !.pc = "done",
                      !.result = Some(BatchResult(Len(batch.prompts), successful,
                                                  Len(results) - successful, results))]
    /\ UNCHANGED <<generator, util, call, pc, request, now, job_start, attempt, image_uri,
                   operation_name, video_uri, poll, net, fs, dl, poll_outcome,
                   download_outcome, raised, propagated, result>>

-----------------------------------------------------------------------------

NoNet == [uploads |-> 0, upload |-> "", posts |-> 0, submit |-> None,
          with_image |-> FALSE, gets |-> 0, polled |-> "", slow |-> 0, streams |-> 0]
NoDl == [attempts |-> 0, opened |-> FALSE, downloaded_bytes |-> 0, chunks |-> 0,
         cause |-> "", status |-> None]
NoFile == [exists |-> FALSE, size |-> 0]
NoRequest == [prompt |-> [len |-> 0, stripped |-> 0], output_path |-> None, image_path |-> None]

\* No batch is running; no function of utils.py is being called.
NoBatch == [pc |-> ""]
NoUtil == [fn |-> ""]

WaitStep == 75
\* max_wait_time (seconds) of a direct call of _poll_operation.
MaxWaitTimes == { k * WaitStep : k \in 0..MaxWaitSteps }

\* The arguments are strings of at most MaxTokens tokens.
MaxTokens == 3

\* No job is running.
NoJob ==
    /\ request = NoRequest
    /\ now = 0 /\ job_start = 0 /\ attempt = 1
    /\ image_uri = None /\ operation_name = None /\ video_uri = None
    /\ poll = NoPoll
    /\ net = NoNet /\ fs = NoFile /\ dl = NoDl
    /\ poll_outcome = None /\ download_outcome = None
    /\ raised = None /\ propagated = FALSE /\ result = None

InitUri ==
    /\ call = "parse_video_uri"
    /\ pc = "call"
    /\ NoJob
    /\ batch = NoBatch
    /\ generator = Entered(VeoVideoGenerator(MAX_RETRY_ATTEMPTS))
    /\ \E u \in Strings(UriTokens, MaxTokens), b \in Strings(BaseTokens, MaxTokens) :
         util = [fn |-> "parse_video_uri", video_uri |-> u, base_url |-> b, ret |-> None]

\* A batch has at most MaxPrompts prompts and a concurrent_limit of at most
\* MaxLimit.
MaxPrompts == 3
MaxLimit == 2

\* A call generate_batch(prompts, concurrent_limit=limit, image_paths=images).
BatchCall(prompts, limit, images) ==
    [pc |-> "start", concurrent_limit |-> limit, prompts |-> prompts,
     image_paths |-> images, semaphore |-> None, tasks |-> <<>>, first |-> None,
     exception |-> None, raised |-> None, result |-> None]

\* The arguments of generate_batch: the type of each entry of prompts, and
\* image_paths, which is None (no prompt has an image, line 555) or gives
\* every prompt an image.
InitBatch ==
    /\ call = "generate_batch"
    /\ pc = "batch"
    /\ NoJob
    /\ util = NoUtil
    /\ generator = Entered(VeoVideoGenerator(MAX_RETRY_ATTEMPTS))
    /\ \E n \in 0..MaxPrompts, limit \in -1..MaxLimit, image \in BOOLEAN :
         \E prompts \in [1..n -> {"str", "int"}] :
            batch = BatchCall(prompts, limit, [i \in 1..n |-> image])

InitPoll ==
    /\ call = "_poll_operation"
    /\ pc = "poll"
    /\ request = NoRequest
    /\ now = 0 /\ job_start = 0 /\ attempt = 1
    /\ image_uri = None
    /\ operation_name = Some("operations/op-1")
    /\ video_uri = None
    /\ \E w \in MaxWaitTimes : poll = PollStart(0, w)
    /\ net = NoNet /\ fs = NoFile /\ dl = NoDl
    /\ poll_outcome = None /\ download_outcome = None
    /\ raised = None /\ propagated = FALSE /\ result = None
    /\ batch = NoBatch /\ util = NoUtil
    /\ generator = Entered(VeoVideoGenerator(MAX_RETRY_ATTEMPTS))

\* The arguments of generate_video_async.
Prompts == { Prompt(0, 0), Prompt(3, 0), Prompt(13, 13), Prompt(15, 13), Prompt(2001, 2001) }
OutputPaths == { None, Some([stem |-> "out/video", suffix |-> ".mp4"]),
                 Some([stem |-> "out/video", suffix |-> ".avi"]) }
ImagePaths == { None, Some([stem |-> "cat", suffix |-> ".JPG", exists |-> TRUE]),
                Some([stem |-> "missing", suffix |-> ".png", exists |-> FALSE]),
                Some([stem |-> "notes", suffix |-> ".txt", exists |-> TRUE]) }
\* The file at the output path before the call: none, or an older video.
Files == { NoFile, [exists |-> TRUE, size |-> 7] }

InitJob ==
    /\ call = "generate_video_async"
    /\ pc = "start"
    /\ \E p \in Prompts, o \in OutputPaths, i \in ImagePaths :
         request = [prompt |-> p, output_path |-> o, image_path |-> i]
    /\ now = 0 /\ job_start = 0 /\ attempt = 1
    /\ image_uri = None /\ operation_name = None /\ video_uri = None
    /\ poll = NoPoll
    /\ net = NoNet /\ dl = NoDl
    /\ fs \in Files
    /\ poll_outcome = None /\ download_outcome = None
    /\ raised = None /\ propagated = FALSE /\ result = None
    /\ batch = NoBatch /\ util = NoUtil
    /\ generator = Entered(VeoVideoGenerator(MAX_RETRY_ATTEMPTS))

Init == InitJob

Next ==
    \/ generate_video_async_start
    \/ _upload_image
    \/ _initiate_generation
    \/ _download_video_open
    \/ _download_video_chunk
    \/ _download_video_stream_error
    \/ _download_video_finish
    \/ _poll_operation_timeout
    \/ _poll_operation_tick
    \/ _poll_operation_sleep

Spec == Init /\ [][Next]_vars

\* A direct call of _poll_operation with a max_wait_time of the caller's.
NextPoll ==
    \/ _poll_operation_timeout
    \/ _poll_operation_tick
    \/ _poll_operation_sleep

SpecPoll == InitPoll /\ [][NextPoll]_vars

\* The event loop runs the coroutine: a response and the end of a sleep arrive.
SpecPollFair == SpecPoll /\ WF_vars(NextPoll)

\* A call of generate_batch.
NextBatch ==
    \/ generate_batch_start
    \/ _generate_with_limit_acquire
    \/ _generate_with_limit_step
    \/ generate_batch_raise
    \/ generate_batch_return

SpecBatch == InitBatch /\ [][NextBatch]_vars

\* A batch whose prompts are all strings, with a concurrent_limit that is not
\* negative: no exception leaves a task or the constructor of the semaphore,
\* so gather raises nothing.  The event loop runs a task that can move.
InitBatchStr ==
    /\ call = "generate_batch"
    /\ pc = "batch"
    /\ NoJob
    /\ util = NoUtil
    /\ generator = Entered(VeoVideoGenerator(MAX_RETRY_ATTEMPTS))
    /\ \E n \in 0..MaxPrompts, limit \in 0..MaxLimit, image \in BOOLEAN :
         batch = BatchCall([i \in 1..n |-> "str"], limit, [i \in 1..n |-> image])

NextBatchStr ==
    \/ generate_batch_start
    \/ _generate_with_limit_acquire
    \/ _generate_with_limit_step
    \/ generate_batch_return

SpecBatchStr == InitBatchStr /\ [][NextBatchStr]_vars /\ WF_vars(NextBatchStr)

\* A batch of more prompts than MAX_CONCURRENT_LIMIT, by at most MaxOver, with
\* a concurrent_limit of MAX_CONCURRENT_LIMIT or more.
MaxOver == 1

InitStartup ==
    /\ call = "generate_batch"
    /\ pc = "batch"
    /\ NoJob
    /\ util = NoUtil
    /\ generator = Entered(VeoVideoGenerator(MAX_RETRY_ATTEMPTS))
    /\ \E limit \in MAX_CONCURRENT_LIMIT..(MAX_CONCURRENT_LIMIT + MaxOver) :
         batch = BatchCall([i \in 1..(MAX_CONCURRENT_LIMIT + MaxOver) |-> "str"], limit,
                           [i \in 1..(MAX_CONCURRENT_LIMIT + MaxOver) |-> FALSE])

\* The first pass of the event loop over the tasks of gather: each task runs
\* to its first suspension, which is the acquire of a semaphore with no permit
\* left or the first request of its job; no response has arrived yet.
NextStartup ==
    \/ generate_batch_start
    \/ _generate_with_limit_acquire

SpecStartup == InitStartup /\ [][NextStartup]_vars

\* Calls of parse_video_uri.
NextUri == call_parse_video_uri

\* A prompt is at most MaxChars characters, alone or after PadLength letters,
\* with which it is longer than the 30 characters kept.
MaxChars == 3
PadLength == 28

InitSanitize ==
    /\ call = "sanitize_filename"
    /\ pc = "call"
    /\ NoJob
    /\ batch = NoBatch
    /\ generator = Entered(VeoVideoGenerator(MAX_RETRY_ATTEMPTS))
    /\ \E n \in {0, PadLength}, t \in Strings(Chars, MaxChars) :
         util = [fn |-> "sanitize_filename", text |-> Letters(n) \o t,
                 max_length |-> FilenameMaxLength, ret |-> None]

\* Calls of sanitize_filename.
NextSanitize == call_sanitize_filename

SpecSanitize == InitSanitize /\ [][NextSanitize]_vars

\* Two calls of generate_filename, the second not before the first, with the
\* same timestamp flag: prompts of at most MaxNameChars characters, with
\* digits and underscores; no index in either call, or the batch indices of
\* two jobs.
MaxNameChars == 2
NameChars == {"a", "1", "_"}
Indices == {0, 1, 11}
Clocks == {1, 11}

InitFilename ==
    /\ call = "generate_filename"
    /\ pc = "call"
    /\ NoJob
    /\ batch = NoBatch
    /\ generator = Entered(VeoVideoGenerator(MAX_RETRY_ATTEMPTS))
    /\ \E p1, p2 \in Strings(NameChars, MaxNameChars), t1, t2 \in Clocks,
          i1, i2 \in {None} \cup { Some(i) : i \in Indices }, timestamp \in BOOLEAN :
         /\ t1 <= t2
         /\ i1.some = i2.some
         /\ util = [fn |-> "generate_filename",
                    args |-> << [prompt |-> p1, index |-> i1, timestamp |-> timestamp,
                                 clock |-> t1],
                                [prompt |-> p2, index |-> i2, timestamp |-> timestamp,
                                 clock |-> t2] >>,
                    ret |-> <<>>]

\* Calls of generate_filename.
NextFilename == call_generate_filename

SpecFilename == InitFilename /\ [][NextFilename]_vars

\* At most MaxCalls calls are made on an OperationStatus.
MaxCalls == 3

InitStatus ==
    /\ call = "OperationStatus"
    /\ pc = "call"
    /\ NoJob
    /\ batch = NoBatch
    /\ generator = Entered(VeoVideoGenerator(MAX_RETRY_ATTEMPTS))
    /\ util = [fn |-> "OperationStatus", self |-> OperationStatus("operations/op-1", 0),
               first |-> None, calls |-> 0, max_calls |-> MaxCalls]

\* Calls of the methods of an OperationStatus.
NextStatus ==
    \/ call_mark_completed
    \/ call_mark_failed
    \/ call_mark_timeout

SpecStatus == InitStatus /\ [][NextStatus]_vars

-----------------------------------------------------------------------------
(* A generator from its construction on: the caller enters and leaves       *)
(* `async with` any number of times and then calls one request method.      *)

\* The constructor is given a max_retries of at most MaxRetries.
MaxRetries == 3

Methods == {"_upload_image", "_initiate_generation", "_poll_operation", "_download_video"}

\* Where the method starts.
FirstPosition(method) ==
    CASE method = "_upload_image" -> "upload"
      [] method = "_initiate_generation" -> "submit"
      [] method = "_poll_operation" -> "poll"
      [] OTHER -> "download"

\* async with generator: (lines 119-125), on a generator that is not open.
__aenter__ ==
    /\ pc = "new"
    /\ generator.client # "open"
    /\ generator' = Entered(generator)
    /\ UNCHANGED <<batch, util, call, pc, request, now, job_start, attempt, image_uri,
                   operation_name, video_uri, poll, net, fs, dl, poll_outcome,
                   download_outcome, raised, propagated, result>>

\* The end of the `async with` block (lines 127-130).
__aexit__ ==
    /\ pc = "new"
    /\ generator.client = "open"
    /\ generator' = Exited(generator)
    /\ UNCHANGED <<batch, util, call, pc, request, now, job_start, attempt, image_uri,
                   operation_name, video_uri, poll, net, fs, dl, poll_outcome,
                   download_outcome, raised, propagated, result>>

\* The caller awaits the method, with the generator as it is.
invoke ==
    /\ pc = "new"
    /\ call \in Methods
    /\ pc' = FirstPosition(call)
    /\ UNCHANGED <<generator, batch, util, call, request, now, job_start, attempt,
                   image_uri, operation_name, video_uri, poll, net, fs, dl, poll_outcome,
                   download_outcome, raised, propagated, result>>

\* The arguments of the method: an image that exists, a prompt with text or a
\* blank one, an operation name with a max_wait_time, a video URI with the
\* file at the output path.
InitMethods ==
    /\ call \in Methods
    /\ pc = "new"
    /\ \E k \in 1..MaxRetries : generator = VeoVideoGenerator(k)
    /\ \E p \in {Prompt(13, 13), Prompt(3, 0)} :
         request = IF call = "_initiate_generation"
                   THEN [NoRequest EXCEPT !.prompt = p]
                   ELSE IF call = "_upload_image"
                   THEN [NoRequest EXCEPT !.image_path =
                            Some([stem |-> "cat", suffix |-> ".JPG", exists |-> TRUE])]
                   ELSE NoRequest
    /\ now = 0 /\ job_start = 0 /\ attempt = 1
    /\ image_uri = None
    /\ operation_name = IF call = "_poll_operation" THEN Some("operations/op-1") ELSE None
    /\ \E u \in VideoUris :
         video_uri = IF call = "_download_video" THEN Some(u) ELSE None
    /\ \E w \in MaxWaitTimes :
         poll = IF call = "_poll_operation" THEN PollStart(0, w) ELSE NoPoll
    /\ net = NoNet /\ dl = NoDl
    /\ \E f \in Files : fs = IF call = "_download_video" THEN f ELSE NoFile
    /\ poll_outcome = None /\ download_outcome = None
    /\ raised = None /\ propagated = FALSE /\ result = None
    /\ batch = NoBatch /\ util = NoUtil

NextMethods ==
    \/ __aenter__
    \/ __aexit__
    \/ invoke
    \/ _upload_image
    \/ _initiate_generation
    \/ _download_video_open
    \/ _download_video_chunk
    \/ _download_video_stream_error
    \/ _download_video_finish
    \/ _poll_operation_timeout
    \/ _poll_operation_tick
    \/ _poll_operation_sleep

SpecMethods == InitMethods /\ [][NextMethods]_vars

SpecUri == InitUri /\ [][NextUri]_vars

-----------------------------------------------------------------------------
(* The claims. *)

Returned == result.some
Failed == result.some /\ ~result.val.success
Succeeded == result.some /\ result.val.success

PollReturned == poll_outcome.some /\ poll_outcome.val.kind = "return"
PollRaised(type) ==
    /\ poll_outcome.some
    /\ poll_outcome.val.kind = "raise"
    /\ poll_outcome.val.exc.val.type = type
PollElapsed == now - poll.start_time
PollDeadline == poll.max_wait_time * TicksPerSecond

\* C1: generate_video_async returns a VideoResponse whatever fails during
\* validation, upload, submission, polling or download: no exception reaches
\* its caller, and an exception that left a step ended the call with a failed
\* VideoResponse.
C1_NeverPropagates ==
    /\ ~propagated
    /\ pc = "done" => Returned
    /\ raised.some => pc = "done" /\ Failed

\* A failure that is not an exception of the package (an IndexError of the
\* poller) was returned as a failed VideoResponse.
C1_Witness ==
    /\ pc = "done" /\ raised.some /\ raised.val.type = "IndexError"
    /\ Failed /\ ~propagated

\* C2 (as claimed): every failed VideoResponse has video_path unset and a
\* non-empty error message, whatever the exception.
C2_FailedHasErrorMessage ==
    Failed => /\ result.val.video_path = None
              /\ result.val.error.some
              /\ result.val.error.val # ""

\* C3: a successful VideoResponse has video_path set, a file of size > 0
\* exists at that path when it is returned, and submission, polling and
\* download have all completed without error.
C3_SuccessHasFile ==
    Succeeded =>
        /\ result.val.video_path.some
        /\ result.val.video_path = request.output_path
        /\ fs.exists /\ fs.size > 0
        /\ result.val.file_size_mb.val.bytes = fs.size
        /\ operation_name.some /\ net.posts >= 1
        /\ PollReturned /\ net.gets >= 1
        /\ download_outcome.some /\ download_outcome.val.kind = "return"
        /\ raised = None

\* A success after an upload and a stream of two full chunks.
C3_Witness ==
    /\ Succeeded /\ image_uri.some
    /\ fs.size = 2 * DOWNLOAD_CHUNK_SIZE

\* C4 (as claimed): a transport error on a status GET does not end the poll:
\* the poller goes on to the sleep and no outcome is produced by that tick.
C4_TransportErrorSwallowed ==
    [][(net'.gets # net.gets /\ poll'.last.kind = "transport")
        => (pc' = "sleep" /\ poll_outcome' = None)]_vars

\* C5 (as claimed): a done body without error object whose nested path is
\* absent or malformed ends the poll with an APIError carrying the full body.
C5_MalformedPathRaisesAPIError ==
    (poll.last.kind = "json" /\ poll.last.done /\ ~poll.last.error /\ ~poll.last.uri)
        => /\ PollRaised("APIError")
           /\ poll_outcome.val.exc.val.response_data = poll.data
           /\ video_uri = None

\* C6: a body with an error object, done or not, with or without a URI at
\* the nested path, ends the poll with an APIError carrying that error
\* payload; no URI is returned and no further status request is sent.
C6_ErrorObjectRaisesAPIError ==
    /\ [](poll.last.error =>
            /\ PollRaised("APIError")
            /\ poll_outcome.val.exc.val.response_data = Some(poll.data.val.f.error)
            /\ poll_outcome.val.uri = None
            /\ video_uri = None
            /\ pc = "done")
    /\ [][poll.last.error => net'.gets = net.gets]_vars

\* The body had an error object, done == true and a valid URI as well.
C6_Witness ==
    /\ poll.last.error /\ poll.last.done /\ poll.last.uri
    /\ PollRaised("APIError")

C8_TimeoutAtDeadline ==
    /\ [][(pc = "poll" /\ PollElapsed >= PollDeadline)
           => /\ PollRaised("TimeoutError")'
              /\ poll_outcome'.val.exc.val.elapsed_time = Some(PollElapsed)
              /\ net'.gets = net.gets
              /\ pc' = "done"]_vars
    /\ [][net'.gets # net.gets => PollElapsed < PollDeadline]_vars
    /\ [](PollRaised("TimeoutError") =>
            /\ poll_outcome.val.exc.val.elapsed_time.val >= PollDeadline
            /\ pc = "done")

\* A timeout after several ticks, with an elapsed time past the deadline.
C8_Witness ==
    /\ PollRaised("TimeoutError")
    /\ poll_outcome.val.exc.val.elapsed_time.val > PollDeadline
    /\ net.gets >= 4

\* C9: the sleep between ticks starts at 10 s, is multiplied by 1.2 by every
\* sleep and capped at 30 s, never decreases and never resets; every tick that
\* does not end the run is followed by a sleep of the current interval before
\* the next status request.
C9_Backoff ==
    /\ [](/\ poll.poll_interval >= 10 * TicksPerSecond
          /\ poll.poll_interval <= 30 * TicksPerSecond
          /\ poll.sleeps = 0 => poll.poll_interval = 10 * TicksPerSecond
          /\ pc = "poll" => poll.sleeps = poll.ticks
          /\ pc = "sleep" => poll.sleeps + 1 = poll.ticks)
    /\ [][poll'.sleeps # poll.sleeps
           => /\ poll'.sleeps = poll.sleeps + 1
              /\ now' - now = poll.poll_interval
              /\ 10 * poll'.poll_interval
                    = Min(12 * poll.poll_interval, 10 * 30 * TicksPerSecond)
              /\ poll'.poll_interval >= poll.poll_interval]_vars
    /\ [][poll'.sleeps = poll.sleeps => poll'.poll_interval = poll.poll_interval]_vars

\* The cap is reached, the last tick having swallowed a failed request.
C9_Witness ==
    /\ pc = "poll" /\ poll.last.kind = "status"
    /\ poll.poll_interval = 30 * TicksPerSecond
    /\ poll.sleeps >= 7

\* C10 (as claimed): a download that fails with a transport error is retried:
\* the failure is surfaced only after MAX_RETRY_ATTEMPTS attempts.
C10_TransportFailureRetried ==
    (download_outcome.some /\ download_outcome.val.kind = "raise" /\ dl.cause = "transport")
        => dl.attempts = MAX_RETRY_ATTEMPTS

DownloadRaisedOutcome == download_outcome.some /\ download_outcome.val.kind = "raise"
DownloadReturnedOutcome == download_outcome.some /\ download_outcome.val.kind = "return"

\* C11: an HTTP error status on the initial response of the download GET
\* ends _download_video with a DownloadError whose message names that status,
\* after one attempt and one request; the target was not opened and the file
\* at the target path is what it was before the call.
C11_StatusErrorOnDownload ==
    /\ [](dl.cause = "status" =>
            /\ DownloadRaisedOutcome
            /\ download_outcome.val.exc.val.type = "DownloadError"
            /\ download_outcome.val.exc.val.message
                  = "Download failed with status " \o ToString(dl.status.val)
            /\ download_outcome.val.exc.val.video_uri = video_uri
            /\ dl.attempts = 1 /\ net.streams = 1
            /\ ~dl.opened /\ ~download_outcome.val.wrote
            /\ pc = "done")
    /\ [][(dl'.cause = "status" /\ dl.cause # "status") => fs' = fs]_vars

\* A 403 on the download GET, an older file at the target path being left.
C11_Witness ==
    /\ dl.cause = "status" /\ dl.status = Some(403)
    /\ DownloadRaisedOutcome /\ Failed
    /\ fs.exists /\ fs.size = 7

\* C12: a stream that ends without error having delivered zero bytes ends
\* _download_video with a DownloadError and no file at the target path;
\* _download_video returns only with a file that exists and holds the bytes
\* of the stream, more than zero.
C12_EmptyDownloadDeleted ==
    /\ [](dl.cause = "verify" =>
            /\ DownloadRaisedOutcome
            /\ download_outcome.val.exc.val.type = "DownloadError"
            /\ dl.opened /\ dl.downloaded_bytes = 0
            /\ ~fs.exists
            /\ pc = "done")
    /\ [](DownloadReturnedOutcome =>
            /\ fs.exists /\ fs.size > 0 /\ fs.size = dl.downloaded_bytes)
    /\ [][(pc = "stream" /\ pc' # "stream" /\ dl.downloaded_bytes = 0
            /\ dl'.cause \notin {"transport", "write"})
           => (dl'.cause = "verify" /\ ~fs'.exists)]_vars

\* A stream of two empty chunks: no file is left.
C12_Witness ==
    /\ dl.cause = "verify" /\ dl.chunks = 2
    /\ DownloadRaisedOutcome /\ Failed
    /\ ~fs.exists

\* C13: when _download_video fails after the target was opened for writing,
\* no file exists at the target path in the state in which the failure is
\* surfaced, whatever was written before.
C13_NoTruncatedFile ==
    (DownloadRaisedOutcome /\ download_outcome.val.wrote)
        => /\ ~fs.exists
           /\ ~download_outcome.val.file.exists
           /\ download_outcome.val.exc.val.type = "DownloadError"

\* The stream broke after one full chunk had been written.
C13_Witness ==
    /\ DownloadRaisedOutcome /\ download_outcome.val.wrote
    /\ dl.downloaded_bytes = DOWNLOAD_CHUNK_SIZE
    /\ dl.cause = "transport"
    /\ ~fs.exists

\* The relative path and the base of the download URL as claimed: the prefix
\* is removed where the URI starts with it, the trailing segment replaced.
RemovePrefix(s, text) == IF StartsWith(s, text) THEN Tail(s) ELSE s
ReplaceSuffix(s, text, new) ==
    IF EndsWith(s, text) THEN SubSeq(s, 1, Len(s) - 1) \o new ELSE s

\* C14 (as claimed): parse_video_uri returns rewritten_base + "/" +
\* relative_path, where only a leading vendor prefix is removed from the URI
\* and only the trailing /v1beta of the base is replaced by /download.
C14_ParseVideoUri ==
    (util.fn = "parse_video_uri" /\ util.ret.some)
        => util.ret.val = Concat(ReplaceSuffix(util.base_url, V1Beta, <<"/download">>))
                          \o "/" \o Concat(RemovePrefix(util.video_uri, GooglePrefix))

\* The answer to the last submission POST.
Submitted(kind) == net.submit.some /\ net.submit.val.kind = kind
RaisedType(type) == raised.some /\ raised.val.type = type

\* C15: one submission makes at most MAX_RETRY_ATTEMPTS POSTs; an attempt
\* that meets a transport error before the third is followed, after a wait of
\* 1 to 10 seconds, by another attempt; only a transport error is; a 2xx
\* answer with a name ends the sequence with that name; the third transport
\* error in a row leaves the method as it is, with no fourth POST.
C15_SubmitRetriesTransport ==
    /\ [](net.posts <= MAX_RETRY_ATTEMPTS)
    /\ [][(pc = "submit" /\ net'.posts # net.posts) =>
            LET r == net'.submit.val IN
            /\ net'.posts = attempt
            /\ (r.kind = "transport" /\ attempt < 3) =>
                  /\ pc' = "submit" /\ attempt' = attempt + 1
                  /\ now' - now >= 1 * TicksPerSecond
                  /\ now' - now <= 10 * TicksPerSecond
                  /\ operation_name' = None /\ raised' = None /\ result' = None
            /\ (r.kind = "transport" /\ attempt = 3) =>
                  /\ pc' = "done" /\ raised' = Some(r.exc)
                  /\ operation_name' = None
            /\ pc' = "submit" => r.kind = "transport"
            /\ operation_name'.some => pc' = "poll"]_vars
    /\ [][pc # "submit" => net'.posts = net.posts]_vars

\* The third POST succeeded after two transport errors.
C15_Witness ==
    /\ net.posts = 3 /\ Submitted("json")
    /\ operation_name = Some("operations/op-1")
    /\ now >= 3 * TicksPerSecond

\* C16: an HTTP error status on the submission POST ends _initiate_generation
\* with an APIError that carries the status code and the body, parsed or as
\* {"text": raw text}; the attempt is not repeated: no POST follows, and when
\* it was the first attempt one POST was made in all.
C16_StatusErrorNotRetried ==
    /\ [](Submitted("status") =>
            LET e == net.submit.val.exc IN
            /\ pc = "done" /\ RaisedType("APIError") /\ Failed
            /\ raised.val.status_code = Some(e.status_code)
            /\ raised.val.response_data.some
            /\ IF e.body.t = "raw"
               THEN raised.val.response_data.val = JObj([text |-> JStr(e.body.x)])
               ELSE raised.val.response_data.val = e.body
            /\ operation_name = None
            /\ net.posts = attempt
            /\ net.gets = 0 /\ net.streams = 0)
    /\ [][Submitted("status") => net'.posts = net.posts]_vars

\* A 500 with a body that is not JSON, on the first attempt.
C16_Witness ==
    /\ Submitted("status") /\ net.submit.val.exc.status_code = 500
    /\ net.posts = 1
    /\ RaisedType("APIError")
    /\ raised.val.response_data = Some(JObj([text |-> JStr("Internal Server Error")]))

\* C17: an operation name is returned only from a 2xx answer whose body has
\* a non-empty name, and it is that name; a 2xx answer with the name missing,
\* null or empty ends the method with an APIError carrying the status code
\* and the body; every status GET is made for the name that was returned.
C17_HandleFromName ==
    /\ [](operation_name.some =>
            /\ Submitted("json")
            /\ net.submit.val.status_code \in 200..299
            /\ Truthy(DictGet(net.submit.val.data, "name", JNull))
            /\ operation_name.val = net.submit.val.data.f.name.x)
    /\ []((Submitted("json") /\ ~Truthy(DictGet(net.submit.val.data, "name", JNull))) =>
            /\ pc = "done" /\ RaisedType("APIError")
            /\ raised.val.status_code = Some(net.submit.val.status_code)
            /\ raised.val.response_data = Some(net.submit.val.data)
            /\ operation_name = None /\ net.gets = 0)
    /\ [][net'.gets # net.gets =>
            /\ operation_name.some /\ operation_name' = operation_name
            /\ net'.polled = operation_name.val]_vars

\* The name returned by the submission was polled three times.
C17_Witness ==
    /\ operation_name = Some("operations/op-1")
    /\ net.polled = "operations/op-1" /\ net.gets >= 3

\* C18 (as claimed): when the upload answer has no file URI the job fails
\* and no generation request is submitted.
C18_MissingUriFailsJob ==
    net.upload = "nouri" => (pc = "done" /\ Failed /\ net.posts = 0)

\* C19 (as claimed): an upload attempt that meets a transport error is
\* followed by another attempt, until MAX_RETRY_ATTEMPTS attempts were made.
C19_UploadRetried ==
    net.upload = "transport" => (pc = "upload" \/ net.uploads = MAX_RETRY_ATTEMPTS)

\* The tasks that hold a permit: they are inside `async with semaphore`.
Holders == { i \in DOMAIN batch.tasks : batch.tasks[i].pc \in Steps }

\* C20: while a batch runs, the tasks holding a permit are never more than
\* concurrent_limit, the value of the semaphore being the permits left; a
\* task that has not acquired a permit has sent no request and has no
\* outcome, and a request is sent only by a task that holds one.
C20_ConcurrencyBound ==
    /\ [](batch.semaphore.some =>
            /\ Cardinality(Holders) <= batch.concurrent_limit
            /\ batch.semaphore.val = batch.concurrent_limit - Cardinality(Holders)
            /\ \A i \in DOMAIN batch.tasks :
                  batch.tasks[i].pc = "acquire" =>
                      (batch.tasks[i].requests = 0 /\ batch.tasks[i].result = None))
    /\ [][\A i \in DOMAIN batch.tasks :
            (i \in DOMAIN batch'.tasks /\ batch'.tasks[i].requests # batch.tasks[i].requests)
                => i \in Holders]_vars

\* Two tasks hold the two permits, one of them past its submission, while a
\* third waits for a permit.
C20_Witness ==
    /\ batch.pc = "gather" /\ batch.concurrent_limit = 2
    /\ Cardinality(Holders) = 2
    /\ \E i \in Holders : batch.tasks[i].requests >= 2
    /\ \E i \in DOMAIN batch.tasks : batch.tasks[i].pc = "acquire"

\* C21: whatever concurrent_limit is passed, at most MAX_CONCURRENT_LIMIT (10)
\* tasks hold a permit, that is run their job, at the same time.
C21_HardCeiling == Cardinality(Holders) <= MAX_CONCURRENT_LIMIT

\* The permits the tasks hold: acquired and not yet released.
RECURSIVE Outstanding(_)
Outstanding(tasks) ==
    IF tasks = <<>> THEN 0
    ELSE (Head(tasks).acquired - Head(tasks).released) + Outstanding(Tail(tasks))

\* C22: a task acquires the semaphore at most once and releases it only after
\* the acquire and at most once; a task that has ended, by a successful or a
\* failed outcome or by an exception, has acquired once and released once;
\* the permits available are those the tasks do not hold, never more than
\* concurrent_limit, and are concurrent_limit again when every task has ended.
C22_PermitReleasedOnce ==
    batch.semaphore.some =>
        /\ \A i \in DOMAIN batch.tasks :
              LET task == batch.tasks[i] IN
              /\ task.acquired \in 0..1
              /\ task.released \in 0..task.acquired
              /\ task.pc = "done" => (task.acquired = 1 /\ task.released = 1)
              /\ task.pc = "done" <=> (task.result.some \/ task.raised.some)
        /\ batch.semaphore.val = batch.concurrent_limit - Outstanding(batch.tasks)
        /\ batch.semaphore.val <= batch.concurrent_limit
        /\ (\A i \in DOMAIN batch.tasks : batch.tasks[i].pc = "done")
              => batch.semaphore.val = batch.concurrent_limit

\* Three tasks have ended, one by a successful outcome, one by a failed
\* outcome and one by an exception, and every permit is back.
C22_Witness ==
    /\ batch.semaphore.some
    /\ batch.semaphore.val = batch.concurrent_limit
    /\ \A i \in DOMAIN batch.tasks : batch.tasks[i].pc = "done"
    /\ \E i, j, k \in DOMAIN batch.tasks :
          /\ batch.tasks[i].result.some /\ batch.tasks[i].result.val.success
          /\ batch.tasks[j].result.some /\ ~batch.tasks[j].result.val.success
          /\ batch.tasks[k].raised.some

\* C23: in the BatchResult returned, results[i] is the outcome of the task
\* started for prompts[i] (batch index i - 1), whichever task completed first.
C23_ResultsInInputOrder ==
    batch.result.some =>
        /\ Len(batch.result.val.results) = Len(batch.prompts)
        /\ \A i \in 1..Len(batch.prompts) :
              /\ batch.result.val.results[i] = batch.tasks[i].result.val
              /\ batch.result.val.results[i].index = i - 1

\* A batch has returned whose last task completed first, with an outcome
\* other than that of the first task.
C23_Witness ==
    /\ batch.result.some
    /\ Len(batch.prompts) >= 2
    /\ batch.first = Some(Len(batch.prompts))
    /\ batch.result.val.results[1].success
          # batch.result.val.results[Len(batch.prompts)].success

\* C24: in the BatchResult returned, successful + failed = total =
\* len(results) = the number of prompts, successful is the number of results
\* that are successes, and success_rate is successful / total * 100, or 0
\* when total is 0.
C24_BatchCounts ==
    batch.result.some =>
        LET b == batch.result.val
            rate == success_rate(b)
        IN /\ b.successful + b.failed = b.total
           /\ b.total = Len(b.results)
           /\ b.total = Len(batch.prompts)
           /\ b.successful = Cardinality({ i \in DOMAIN b.results : b.results[i].success })
           /\ IF b.total = 0
              THEN rate.num = 0
              ELSE rate.num * b.total = b.successful * 100 * rate.den

\* A batch of three has returned with two successes and one failure.
C24_Witness ==
    /\ batch.result.some
    /\ batch.result.val.total = 3
    /\ batch.result.val.successful = 2
    /\ batch.result.val.failed = 1

\* The task has ended with a failed outcome.
Failure(task) == task.result.some /\ ~task.result.val.success

\* C25: generate_batch returns only when every task has its outcome, all of
\* them in the results; a task that ends with a failed outcome leaves every
\* sibling as it was and gives its permit back, so that a sibling that waits
\* can start; and with a permit to be had every task reaches its end, whatever
\* its siblings' outcomes.
C25_NoFailFast ==
    /\ [](batch.result.some =>
            /\ Len(batch.result.val.results) = Len(batch.prompts)
            /\ \A i \in DOMAIN batch.tasks :
                  batch.tasks[i].pc = "done" /\ batch.tasks[i].result.some)
    /\ [][\A i \in DOMAIN batch.tasks :
            (i \in DOMAIN batch'.tasks /\ ~Failure(batch.tasks[i]) /\ Failure(batch'.tasks[i]))
               => /\ \A j \in DOMAIN batch.tasks \ {i} : batch'.tasks[j] = batch.tasks[j]
                  /\ batch'.semaphore.val = batch.semaphore.val + 1
                  /\ batch'.pc = batch.pc]_vars
    /\ (batch.semaphore.some /\ batch.concurrent_limit > 0)
          ~> (\A i \in DOMAIN batch.tasks : batch.tasks[i].pc = "done")

\* With one permit for three tasks, one task failed at its validation and
\* another after its submission; the batch has returned with the success of
\* the third.
C25_Witness ==
    /\ batch.result.some
    /\ batch.concurrent_limit = 1
    /\ Len(batch.tasks) = 3
    /\ Failure(batch.tasks[1]) /\ batch.tasks[1].requests = 0
    /\ Failure(batch.tasks[2]) /\ batch.tasks[2].requests >= 3
    /\ batch.tasks[3].result.val.success

RecognisedExtensions == {".jpg", ".JPG", ".jpeg", ".png", ".gif", ".bmp", ".webp"}

\* The request fails validation: the prompt is empty or blank, or longer than
\* 2000 characters, the output path does not end in .mp4, or the image is
\* missing or has an extension that is not recognised.
FailsValidation(r) ==
    \/ r.prompt.len = 0
    \/ r.prompt.stripped = 0
    \/ r.prompt.len > 2000
    \/ r.output_path.some /\ r.output_path.val.suffix \notin {".mp4", ".MP4"}
    \/ r.image_path.some /\ ~r.image_path.val.exists
    \/ r.image_path.some /\ r.image_path.val.suffix \notin RecognisedExtensions

\* C27: a request that fails validation sends no request at any time, the job
\* goes from its start to its end, and its outcome is a failure carrying the
\* validation error.
C27_InvalidNoNetwork ==
    (call = "generate_video_async" /\ FailsValidation(request)) =>
        /\ net = NoNet
        /\ pc \in {"start", "done"}
        /\ pc = "done" =>
              /\ raised.some /\ raised.val.type = "pydantic.ValidationError"
              /\ ~propagated
              /\ result.some /\ ~result.val.success
              /\ result.val.video_path = None

\* The job of a blank prompt that is not empty, with an image that would
\* pass, has ended as a failure.
C27_Witness ==
    /\ call = "generate_video_async" /\ pc = "done"
    /\ request.prompt.len > 0 /\ request.prompt.stripped = 0
    /\ request.image_path.some /\ request.image_path.val.exists
    /\ result.some /\ ~result.val.success
    /\ net = NoNet

\* The requests sent so far.
Requests == net.uploads + net.posts + net.gets + net.streams

\* C28: a request method called while the client is not open, before
\* __aenter__ or after __aexit__, ends with the not-ready RuntimeError and has
\* sent nothing; a request goes out only while the client is open.
C28_NotOpenNotReady ==
    /\ []((call \in Methods /\ pc = "done" /\ generator.client # "open") =>
            /\ raised = Some(NotReady)
            /\ propagated
            /\ Requests = 0)
    /\ [][Requests' # Requests => generator.client = "open"]_vars

\* C29: a request of a generator constructed with max_retries = k is
\* attempted at most k times.
C29_MaxRetriesAttempts ==
    call \in {"_upload_image", "_initiate_generation", "_download_video"} =>
        /\ attempt <= generator.max_retries
        /\ net.uploads <= generator.max_retries
        /\ net.posts <= generator.max_retries
        /\ net.streams <= generator.max_retries

\* A letter or a digit, in the texts that occur.
IsAlnum(c) == c \in {"a", "1", "v", "i", "d", "e", "o"}

\* C30: the sanitized prefix has only letters, digits and underscores, no
\* underscore at either end and at most 30 characters, and is "video" when
\* the prompt has no letter and no digit.
C30_SanitizedPrefix ==
    (util.fn = "sanitize_filename" /\ util.ret.some) =>
        LET safe_text == util.ret.val IN
        /\ \A i \in 1..Len(safe_text) : IsAlnum(safe_text[i]) \/ safe_text[i] = "_"
        /\ Len(safe_text) >= 1
        /\ safe_text[1] # "_" /\ safe_text[Len(safe_text)] # "_"
        /\ Len(safe_text) <= 30
        /\ (\A i \in 1..Len(util.text) : ~IsAlnum(util.text[i]))
              => safe_text = <<"v", "i", "d", "e", "o">>

\* The text begins with prefix / ends with suffix.
BeginsWith(text, prefix) ==
    Len(text) >= Len(prefix) /\ SubSeq(text, 1, Len(prefix)) = prefix
EndsIn(text, suffix) ==
    Len(text) >= Len(suffix)
        /\ SubSeq(text, Len(text) - Len(suffix) + 1, Len(text)) = suffix

\* C31: with the timestamp disabled two calls of generate_filename with the
\* same prompt and index return the same name, whenever they are made; every
\* name begins with "veo_" and ends with ".mp4".
C31_FilenameDeterministic ==
    util.fn = "generate_filename" =>
        /\ \A k \in 1..Len(util.ret) :
              /\ BeginsWith(util.ret[k], <<"v", "e", "o", "_">>)
              /\ EndsIn(util.ret[k], <<".", "m", "p", "4">>)
        /\ (/\ Len(util.ret) = 2
            /\ ~util.args[1].timestamp /\ ~util.args[2].timestamp
            /\ util.args[1].prompt = util.args[2].prompt
            /\ util.args[1].index = util.args[2].index)
              => util.ret[1] = util.ret[2]

\* Two calls without timestamp, with the same prompt and index, were made at
\* different times.
C31_Witness ==
    /\ util.fn = "generate_filename" /\ Len(util.ret) = 2
    /\ ~util.args[1].timestamp
    /\ util.args[1].prompt = util.args[2].prompt /\ Len(util.args[1].prompt) > 0
    /\ util.args[1].index = util.args[2].index /\ util.args[1].index.some
    /\ util.args[1].clock # util.args[2].clock

\* C32: the names generated for two jobs of a batch with different indices
\* differ, whatever their prompts and the times they observe.
C32_DistinctPaths ==
    (/\ util.fn = "generate_filename" /\ Len(util.ret) = 2
     /\ util.args[1].timestamp
     /\ util.args[1].index.some /\ util.args[2].index.some
     /\ util.args[1].index # util.args[2].index)
        => util.ret[1] # util.ret[2]

\* Two jobs with the same prompt, which has a digit and an underscore, with
\* the indices 1 and 11, the second job a time 11 after the first at time 1.
C32_Witness ==
    /\ util.fn = "generate_filename" /\ Len(util.ret) = 2
    /\ util.args[1].timestamp
    /\ util.args[1].prompt = <<"1", "_">> /\ util.args[2].prompt = <<"1", "_">>
    /\ util.args[1].index = Some(1) /\ util.args[2].index = Some(11)
    /\ util.args[1].clock = 1 /\ util.args[2].clock = 11

\* C33: a call of _poll_operation reaches its end; a tick that does not end
\* it is followed by a sleep, a sleep takes at least 10 s and leads to the
\* test of the deadline, and tick k + 1 is sent only when 10 k seconds are
\* less than max_wait_time.
C33_PollTerminates ==
    /\ <>(pc = "done" /\ poll_outcome.some)
    /\ [][poll'.ticks # poll.ticks => pc' \in {"sleep", "done"}]_vars
    /\ [][pc = "sleep" => (now' - now >= 10 * TicksPerSecond /\ pc' = "poll")]_vars
    /\ [](poll.ticks > 0 => (poll.ticks - 1) * 10 < poll.max_wait_time)
    /\ [](pc = "done" => poll_outcome.some)

\* The run ended at its deadline after seven ticks and as many sleeps, the
\* last tick a swallowed failure.
C33_Witness ==
    /\ call = "_poll_operation" /\ pc = "done"
    /\ PollRaised("TimeoutError")
    /\ poll.last.kind = "status"
    /\ poll.ticks >= 7 /\ poll.sleeps = poll.ticks

\* C34: a status GET answered with an HTTP error status raises nothing and
\* does not end the poll: the sleep and the backoff follow; a run whose last
\* answer was an error status has ended only by TimeoutError, at or after
\* max_wait_time.
C34_StatusErrorPolledAgain ==
    /\ [][(poll'.ticks # poll.ticks /\ poll'.last.kind = "status")
            => /\ pc' = "sleep"
               /\ raised' = None /\ poll_outcome' = None
               /\ poll'.poll_interval = poll.poll_interval]_vars
    /\ [][(pc = "sleep" /\ poll.last.kind = "status")
            => /\ pc' = "poll"
               /\ 10 * poll'.poll_interval
                     = Min(12 * poll.poll_interval, 10 * 30 * TicksPerSecond)]_vars
    /\ []((pc = "done" /\ poll.last.kind = "status")
            => /\ PollRaised("TimeoutError")
               /\ raised.val.type = "TimeoutError"
               /\ poll.elapsed >= poll.max_wait_time * TicksPerSecond)

\* After an error status the poller slept and polled again, and met another.
C34_Witness ==
    /\ call = "_poll_operation" /\ pc = "sleep"
    /\ poll.last.kind = "status"
    /\ poll.ticks >= 2 /\ poll.sleeps >= 1
    /\ net.gets = poll.ticks
    /\ raised = None

\* C35: a call of generate_batch returns a BatchResult in the end, whatever
\* its prompts and its concurrent_limit.
C35_BatchReturns == <>(batch.pc = "done" /\ batch.result.some)

\* C36: an attempt of _download_video that fails before the target is opened
\* for writing, by an HTTP error status or by a transport error of the GET,
\* leaves the file at the target path as it was.
C36_EarlyFailureKeepsFile ==
    [][(/\ pc = "download"
        /\ dl'.attempts # dl.attempts
        /\ ~dl'.opened
        /\ dl'.cause \in {"transport", "status"})
          => fs' = fs]_vars

\* C37: a failed VideoResponse has operation_name, video_uri and
\* file_size_mb unset and generation_time set, whatever the job had obtained
\* when it failed.
C37_FailedResponseFields ==
    (call = "generate_video_async" /\ result.some /\ ~result.val.success) =>
        /\ result.val.operation_name = None
        /\ result.val.video_uri = None
        /\ result.val.file_size_mb = None
        /\ result.val.generation_time.some
        /\ result.val.generation_time.val = now - job_start

\* The job failed in its download, with the operation name and the video URI
\* in hand.
C37_Witness ==
    /\ call = "generate_video_async" /\ pc = "done"
    /\ result.some /\ ~result.val.success
    /\ operation_name.some /\ video_uri.some
    /\ raised.some /\ raised.val.type = "DownloadError"
    /\ result.val.generation_time.val > 0

\* C38: once an OperationStatus is completed, failed or timeout, its
\* status, video_uri and error stay those the first call set, and video_uri
\* is set exactly when the status is completed.
C38_TerminalStatusFinal ==
    (util.fn = "OperationStatus" /\ util.first.some) =>
        /\ util.self.status = util.first.val.status
        /\ util.self.video_uri = util.first.val.video_uri
        /\ util.self.error = util.first.val.error
        /\ util.self.video_uri.some <=> util.self.status = "completed"

====
